---- MODULE Spec2Model ----
(***************************************************************************)
(* Change tracking and incremental mode of python_aggregator.py:           *)
(* aggregate_files, ChangeTracker and the hashing of file contents.        *)
(*                                                                         *)
(* A file's bytes are a sequence of byte values.  Text is a sequence of    *)
(* code points.  A digest is the sequence of "hex digit" tokens of the     *)
(* hashed bytes, so that sha256 is deterministic and collision free.       *)
(***************************************************************************)
EXTENDS Integers, Sequences, FiniteSets, TLC

(***************************************************************************)
(* Bounds of the model.                                                    *)
(***************************************************************************)
MaxRuns == 3
MaxEdits == 2

(***************************************************************************)
(* The tree under the aggregation root.  Paths are numbered in ascending   *)
(* lexicographic order of their relative path.                             *)
(***************************************************************************)
PathName == <<".aggregator_cache", "a.py", "b.py">>
Paths == 1..Len(PathName)
CACHE_FILE == 1
SourcePaths == Paths \ {CACHE_FILE}

\* byte values
LF == 10
CR == 13
LPAREN == 40
LETTER_X == 120
JSON_NULL == 110
BRACE_OPEN == 123
BRACE_CLOSE == 125
INVALID_UTF8 == 255
\* tokens of the serialised cache and of hex digests (plain ASCII text)
KeyBase == 1000
LenBase == 2000
HexBase == 3000

None == <<>>

Range(s) == {s[i] : i \in 1..Len(s)}

\* contents a source file may be given
Contents ==
  { <<LETTER_X>>, <<LETTER_X, LF>>, <<LETTER_X, CR, LF>>, <<INVALID_UTF8>>, <<LPAREN>> }

\* contents with which the cache file may be overwritten from outside
ForeignCacheContents ==
  { <<INVALID_UTF8>>, <<LPAREN>>, <<JSON_NULL>> }

(***************************************************************************)
(* hashlib.sha256(b).hexdigest()                                           *)
(***************************************************************************)
Sha256(b) == <<HexBase>> \o [i \in 1..Len(b) |-> HexBase + b[i]]

(***************************************************************************)
(* Path.read_text(): decoding fails on invalid UTF-8; universal newlines   *)
(* turn CR LF and a lone CR into LF.                                       *)
(***************************************************************************)
Decodable(b) == INVALID_UTF8 \notin Range(b)

RECURSIVE TranslateNewlines(_)
TranslateNewlines(b) ==
  IF b = <<>> THEN <<>>
  ELSE IF Head(b) = CR
       THEN IF Len(b) >= 2 /\ b[2] = LF
            THEN <<LF>> \o TranslateNewlines(SubSeq(b, 3, Len(b)))
            ELSE <<LF>> \o TranslateNewlines(Tail(b))
       ELSE <<Head(b)>> \o TranslateNewlines(Tail(b))

read_text(b) == TranslateNewlines(b)

\* str.encode(): the code points used here are ASCII, one byte each
encode(t) == t

\* ast.parse(content) raises SyntaxError on an unbalanced parenthesis
Parses(t) == LPAREN \notin Range(t)

(***************************************************************************)
(* json.dumps of a path -> hash mapping and json.loads of a text.          *)
(***************************************************************************)
RECURSIVE SortedSeq(_)
SortedSeq(S) ==
  IF S = {} THEN <<>>
  ELSE LET m == CHOOSE x \in S : \A y \in S : x <= y
       IN <<m>> \o SortedSeq(S \ {m})

RECURSIVE DumpEntries(_, _)
DumpEntries(m, keys) ==
  IF keys = <<>> THEN <<>>
  ELSE <<KeyBase + Head(keys), LenBase + Len(m[Head(keys)])>> \o m[Head(keys)]
       \o DumpEntries(m, Tail(keys))

json_dumps(m) ==
  <<BRACE_OPEN>> \o DumpEntries(m, SortedSeq(DOMAIN m)) \o <<BRACE_CLOSE>>

EmptyMap == [p \in {} |-> None]

\* the entries of a JSON object; "error" when the text is not well formed
RECURSIVE LoadEntries(_)
LoadEntries(s) ==
  IF s = <<>> THEN [ok |-> TRUE, map |-> EmptyMap]
  ELSE IF Len(s) < 2 \/ s[1] - KeyBase \notin Paths
          \/ s[2] < LenBase \/ s[2] - LenBase > Len(s) - 2
       THEN [ok |-> FALSE, map |-> EmptyMap]
       ELSE LET n == s[2] - LenBase
                rest == LoadEntries(SubSeq(s, 3 + n, Len(s)))
            IN IF rest.ok /\ s[1] - KeyBase \notin DOMAIN rest.map
               THEN [ok |-> TRUE,
                     map |-> (s[1] - KeyBase :> SubSeq(s, 3, 2 + n)) @@ rest.map]
               ELSE [ok |-> FALSE, map |-> EmptyMap]

\* json.loads: [kind |-> "dict", map], [kind |-> "other"] (a JSON value that
\* is not an object) or [kind |-> "error"] (JSONDecodeError)
json_loads(t) ==
  IF t = <<JSON_NULL>> THEN [kind |-> "other", map |-> EmptyMap]
  ELSE IF Len(t) >= 2 /\ t[1] = BRACE_OPEN /\ t[Len(t)] = BRACE_CLOSE
       THEN LET e == LoadEntries(SubSeq(t, 2, Len(t) - 1))
            IN IF e.ok THEN [kind |-> "dict", map |-> e.map]
               ELSE [kind |-> "error", map |-> EmptyMap]
       ELSE [kind |-> "error", map |-> EmptyMap]

(***************************************************************************)
(* State.                                                                  *)
(*   fs      the files under the root: present, raw bytes, read permission *)
(*   result  what the last call of aggregate_files returned or raised,     *)
(*           with the locals of that call the properties speak about       *)
(*   atRun   the tree as the last call left it                             *)
(*   runs, edits  number of calls and of outside edits so far              *)
(***************************************************************************)
VARIABLES fs, result, atRun, runs, edits

(***************************************************************************)
(* State of the per-file pipeline, used when a single stage is exercised   *)
(* on its own (FormatSpec, IgnoreSpec, DepsSpec below).                    *)
(*   disk    the files handed to get_file_metadata                         *)
(*   files   the FileMetadata objects built from them, with their cached   *)
(*           analysis and their TOC entries                                *)
(*   docs    the documents the formatter returned so far                   *)
(*   walk    a root, its ignore file, the caller's exclusions and one      *)
(*           path met by the traversal                                     *)
(*   git_ignore_filter  the GitIgnoreFilter of the root, once constructed   *)
(*   matched   what GitIgnoreFilter.should_ignore returned for the path    *)
(*   verdict   what the traversal decided for the path                     *)
(*   module  the import statements of a Python file                        *)
(*   dependencies  what extract_dependencies returned for it               *)
(***************************************************************************)
VARIABLES disk, files, docs, walk, git_ignore_filter, matched, verdict, module,
          dependencies

formatVars == <<disk, files, docs>>
ignoreVars == <<walk, git_ignore_filter, matched, verdict>>
depsVars == <<module, dependencies>>

(***************************************************************************)
(* State of the further stages that are exercised on their own.            *)
(*   py_file   a Python file handed to generate_file_purpose               *)
(*   generated_purpose   what generate_file_purpose returned for it        *)
(*   entity    a text and the lines of one class or function in it         *)
(*   reported_lines   the lines the analysis reports for the entity        *)
(*   html_files   the FileMetadata objects handed to HTMLFormatter.format  *)
(*   html      the page it returned                                        *)
(*   splitter  a BaseFormatter and the content handed to _chunk_content    *)
(*   pieces    the list _chunk_content returned                            *)
(*   directory_var, chunk_size_var, output_file_var, status_var            *)
(*             the Tk variables of the AggregatorGUI                       *)
(*   queue     the pending GUI updates                                     *)
(*   preview_text, output_file   the preview widget and the output file    *)
(*   invocations   the calls of the aggregator function so far             *)
(*   clicks    the presses of Preview and Aggregate so far                 *)
(*   validated   what validate_inputs returned for the last press          *)
(***************************************************************************)
VARIABLES py_file, generated_purpose, entity, reported_lines, html_files, html,
          splitter, pieces, directory_var, chunk_size_var, output_file_var,
          status_var, queue, preview_text, output_file, invocations, clicks,
          validated

purposeVars == <<py_file, generated_purpose>>
lineVars == <<entity, reported_lines>>
htmlVars == <<html_files, html>>
chunkVars == <<splitter, pieces>>
guiVars ==
  <<directory_var, chunk_size_var, output_file_var, status_var, queue,
    preview_text, output_file, invocations, clicks, validated>>
stageVars == <<purposeVars, lineVars, htmlVars, chunkVars, guiVars>>

vars ==
  <<fs, result, atRun, runs, edits, formatVars, ignoreVars, depsVars,
    stageVars>>

\* the value of a variable no call has set yet
Unset == <<>>

FormatIdle == disk = Unset /\ files = Unset /\ docs = Unset
IgnoreIdle ==
  walk = Unset /\ git_ignore_filter = Unset /\ matched = Unset /\ verdict = Unset
DepsIdle == module = Unset /\ dependencies = Unset
PurposeIdle == py_file = Unset /\ generated_purpose = Unset
LineIdle == entity = Unset /\ reported_lines = Unset
HtmlIdle == html_files = Unset /\ html = Unset
ChunkIdle == splitter = Unset /\ pieces = Unset
GuiIdle ==
  /\ directory_var = Unset /\ chunk_size_var = Unset /\ output_file_var = Unset
  /\ status_var = Unset /\ queue = Unset /\ preview_text = Unset
  /\ output_file = Unset /\ invocations = Unset /\ clicks = Unset
  /\ validated = Unset
StageIdle == PurposeIdle /\ LineIdle /\ HtmlIdle /\ ChunkIdle /\ GuiIdle

Absent == [present |-> FALSE, bytes |-> <<>>, readable |-> TRUE]

File(b) == [present |-> TRUE, bytes |-> b, readable |-> TRUE]

NoResult ==
  [status |-> "none", error |-> "", root_is_dir |-> TRUE,
   track_changes |-> FALSE, incremental |-> FALSE, traversed |-> FALSE,
   cache |-> [kind |-> "dict", map |-> EmptyMap], current |-> EmptyMap,
   candidates |-> {}, changes |-> <<>>, sections |-> <<>>]

(***************************************************************************)
(* ChangeTracker._load_cache: {} when the file is absent, cannot be read   *)
(* or decoded, or is not JSON; otherwise whatever value the JSON holds.    *)
(***************************************************************************)
EmptyCache == [kind |-> "dict", map |-> EmptyMap]

_load_cache(f) ==
  IF ~f[CACHE_FILE].present THEN EmptyCache
  ELSE IF ~f[CACHE_FILE].readable \/ ~Decodable(f[CACHE_FILE].bytes) THEN EmptyCache
  ELSE LET j == json_loads(read_text(f[CACHE_FILE].bytes))
       IN IF j.kind = "error" THEN EmptyCache ELSE j

(***************************************************************************)
(* ChangeTracker._save_cache: the cache path is taken to be writable; an   *)
(* existing file keeps its read permission.                                *)
(***************************************************************************)
_save_cache(f, m) ==
  [f EXCEPT ![CACHE_FILE] =
     [present |-> TRUE, bytes |-> encode(json_dumps(m)),
      readable |-> IF f[CACHE_FILE].present THEN f[CACHE_FILE].readable ELSE TRUE]]

\* dict.get(key, None)
Get(m, p) == IF p \in DOMAIN m THEN m[p] ELSE None

FileChange(p, t, old, new) ==
  [file_path |-> p, change_type |-> t, old_hash |-> old, new_hash |-> new]

(***************************************************************************)
(* get_file_metadata: raises when read_text fails; a file that does not    *)
(* parse keeps its content and gets the fallback analysis.                 *)
(***************************************************************************)
MetadataFails(f, p) == ~f[p].readable \/ ~Decodable(f[p].bytes)

content_hash(content) == Sha256(encode(content))

get_file_metadata(f, p) ==
  LET content == read_text(f[p].bytes)
  IN [relative_path |-> p, content |-> content,
      content_hash |-> content_hash(content),
      file_analysis |-> IF Parses(content) THEN "Quick Analysis"
                        ELSE "Unable to analyze file content"]

(***************************************************************************)
(* ChangeTracker.track_changes: the two loops, in the order of the code.   *)
(***************************************************************************)
current_hashes(files_metadata) ==
  [p \in {files_metadata[i].relative_path : i \in 1..Len(files_metadata)} |->
     files_metadata[CHOOSE i \in 1..Len(files_metadata) :
                      files_metadata[i].relative_path = p].content_hash]

RECURSIVE AddedAndModified(_, _, _)
AddedAndModified(keys, old, cur) ==
  IF keys = <<>> THEN <<>>
  ELSE LET p == Head(keys)
           rest == AddedAndModified(Tail(keys), old, cur)
       IN IF p \notin DOMAIN old
          THEN <<FileChange(p, "added", None, cur[p])>> \o rest
          ELSE IF old[p] # cur[p]
               THEN <<FileChange(p, "modified", old[p], cur[p])>> \o rest
               ELSE rest

\* mutant: the membership test against the current mapping is lost
RECURSIVE RemovedIgnoresCurrent(_, _, _)
RemovedIgnoresCurrent(keys, old, cur) ==
  IF keys = <<>> THEN <<>>
  ELSE <<FileChange(Head(keys), "removed", old[Head(keys)], None)>>
       \o RemovedIgnoresCurrent(Tail(keys), old, cur)

RECURSIVE Removed(_, _, _)
Removed(keys, old, cur) ==
  IF keys = <<>> THEN <<>>
  ELSE LET p == Head(keys)
           rest == Removed(Tail(keys), old, cur)
       IN IF p \notin DOMAIN cur
          THEN <<FileChange(p, "removed", old[p], None)>> \o rest
          ELSE rest

\* mutant: the loop over the old hashes is lost
track_changes_NoRemovedLoop(old, cur) ==
  AddedAndModified(SortedSeq(DOMAIN cur), old, cur)

track_changes(old, cur) ==
  AddedAndModified(SortedSeq(DOMAIN cur), old, cur)
  \o Removed(SortedSeq(DOMAIN old), old, cur)

(***************************************************************************)
(* aggregate_files.                                                        *)
(***************************************************************************)
\* the files the traversal keeps (lines 1274-1301): every file of the tree
\* modelled here passes the ignore rules, the size limit and is_text_file;
\* the cache file is skipped in incremental mode only
Candidates(f, incremental) ==
  {p \in Paths : f[p].present /\ ~(incremental /\ p = CACHE_FILE)}

\* sha256(file_path.read_bytes()).hexdigest()
BytesHash(f, p) == Sha256(f[p].bytes)

\* the cache the call starts with (lines 1263-1265)
InitialCache(f, incremental) ==
  IF incremental THEN _load_cache(f) ELSE EmptyCache

\* incremental mode: the files whose hash differs from the cached one
modified_files(f, cache) ==
  {p \in Candidates(f, TRUE) : Get(cache.map, p) # BytesHash(f, p)}

\* the files handed to get_file_metadata, and those for which it succeeds
ToProcess(f, incremental, cache) ==
  IF incremental THEN modified_files(f, cache) ELSE Candidates(f, FALSE)

Processed(f, incremental, cache) ==
  {p \in ToProcess(f, incremental, cache) : ~MetadataFails(f, p)}

\* the orders in which root_path.rglob may yield a set of files: every file
\* once, in an order the file system decides
Traversals(S) ==
  {t \in [1..Cardinality(S) -> S] : \A i, j \in 1..Cardinality(S) : i # j => t[i] # t[j]}

\* list.sort(key=lambda x: x.relative_path); the paths are numbered in the
\* order of their names
RECURSIVE InsertByPath(_, _)
InsertByPath(x, list) ==
  IF list = <<>> THEN <<x>>
  ELSE IF x.relative_path < Head(list).relative_path THEN <<x>> \o list
       ELSE <<Head(list)>> \o InsertByPath(x, Tail(list))

\* mutant: the list is left in the order of the traversal
sort_Omitted(list) == list

RECURSIVE sort(_)
sort(list) ==
  IF list = <<>> THEN <<>>
  ELSE InsertByPath(list[Len(list)], sort(SubSeq(list, 1, Len(list) - 1)))

\* files_metadata: appended in the order of the traversal (line 1316), then
\* sorted by relative path (line 1323)
FilesMetadata(f, incremental, cache, traversal) ==
  LET IsProcessed(p) == p \in Processed(f, incremental, cache)
      order == SelectSeq(traversal, IsProcessed)
  IN sort([i \in 1..Len(order) |-> get_file_metadata(f, order[i])])

\* formatter.format: one section per file of the list, in list order
format(files_metadata) ==
  [i \in 1..Len(files_metadata) |->
     [path |-> files_metadata[i].relative_path,
      file_analysis |-> files_metadata[i].file_analysis]]

\* the changes of an incremental tracking run (lines 1338-1345)
IncrementalChanges(f, cache) ==
  LET order == SortedSeq(modified_files(f, cache))
  IN [i \in 1..Len(order) |->
        FileChange(order[i], "modified", Get(cache.map, order[i]),
                   BytesHash(f, order[i]))]

\* the cache an incremental tracking run writes (lines 1348-1353)
new_cache(f) == [p \in Candidates(f, TRUE) |-> BytesHash(f, p)]

\* exceptions that leave the traversal loop in incremental mode: read_bytes
\* (line 1305) and cache.get (line 1306) are outside the try block
LoopErrors(f, incremental, cache) ==
  IF ~incremental THEN {}
  ELSE (IF \E p \in Candidates(f, TRUE) : ~f[p].readable
        THEN {"PermissionError"} ELSE {})
       \cup
       (IF cache.kind = "other" /\ \E p \in Candidates(f, TRUE) : f[p].readable
        THEN {"AttributeError"} ELSE {})

Raised(e, root_is_dir, track, incremental, trav, f) ==
  [NoResult EXCEPT !.status = "error", !.error = e, !.root_is_dir = root_is_dir,
                   !.track_changes = track, !.incremental = incremental,
                   !.traversed = trav,
                   !.candidates = IF trav THEN Candidates(f, incremental) ELSE {}]

Returned(root_is_dir, track, incremental, cache, cur, changes, files_metadata, f) ==
  [status |-> "ok", error |-> "", root_is_dir |-> root_is_dir,
   track_changes |-> track, incremental |-> incremental, traversed |-> TRUE,
   cache |-> cache, current |-> cur,
   candidates |-> Candidates(f, incremental),
   changes |-> changes, sections |-> format(files_metadata)]

\* mutant: the directory check is lost
IsDirUnchecked(root_is_dir) == TRUE

\* root_path.is_dir() (line 1249)
IsDir(root_is_dir) == root_is_dir

aggregate_files(root_is_dir, track, incremental) ==
  /\ runs < MaxRuns
  /\ runs' = runs + 1
  /\ UNCHANGED <<edits, formatVars, ignoreVars, depsVars, stageVars>>
  /\ IF ~IsDir(root_is_dir)
     THEN /\ result' = Raised("ValueError", FALSE, track, incremental, FALSE, fs)
          /\ fs' = fs
     ELSE \E traversal \in Traversals(Candidates(fs, incremental)) :
          LET cache == InitialCache(fs, incremental)
              errors == LoopErrors(fs, incremental, cache)
              files_metadata == FilesMetadata(fs, incremental, cache, traversal)
          IN IF errors # {}
             THEN /\ \E e \in errors :
                       result' = Raised(e, root_is_dir, track, incremental, TRUE, fs)
                  /\ fs' = fs
             ELSE IF ~track
             THEN /\ result' = Returned(root_is_dir, track, incremental, cache, EmptyMap,
                                        <<>>, files_metadata, fs)
                  /\ fs' = fs
             ELSE IF incremental
             THEN /\ result' = Returned(root_is_dir, track, incremental, cache,
                                        new_cache(fs),
                                        IncrementalChanges(fs, cache),
                                        files_metadata, fs)
                  /\ fs' = _save_cache(fs, new_cache(fs))
             ELSE LET old == _load_cache(fs)
                      cur == current_hashes(files_metadata)
                  IN IF old.kind = "other"
                     THEN /\ result' = Raised("TypeError", root_is_dir, track,
                                              incremental, TRUE, fs)
                          /\ fs' = fs
                     ELSE /\ result' = Returned(root_is_dir, track, incremental, old, cur,
                                                track_changes(old.map, cur),
                                                files_metadata, fs)
                          /\ fs' = _save_cache(fs, cur)
  /\ atRun' = fs'

(***************************************************************************)
(* The outside world between two calls: files are written, deleted, made   *)
(* unreadable or readable again; the cache file may be overwritten.        *)
(***************************************************************************)
WriteFile(p, b) ==
  /\ edits < MaxEdits
  /\ fs[p] # File(b)
  /\ fs' = [fs EXCEPT ![p] = [present |-> TRUE, bytes |-> b,
                              readable |-> IF fs[p].present THEN fs[p].readable
                                           ELSE TRUE]]
  /\ edits' = edits + 1
  /\ UNCHANGED <<result, atRun, runs, formatVars, ignoreVars, depsVars, stageVars>>

DeleteFile(p) ==
  /\ edits < MaxEdits
  /\ fs[p].present
  /\ fs' = [fs EXCEPT ![p] = Absent]
  /\ edits' = edits + 1
  /\ UNCHANGED <<result, atRun, runs, formatVars, ignoreVars, depsVars, stageVars>>

Chmod(p) ==
  /\ edits < MaxEdits
  /\ fs[p].present
  /\ fs' = [fs EXCEPT ![p].readable = ~fs[p].readable]
  /\ edits' = edits + 1
  /\ UNCHANGED <<result, atRun, runs, formatVars, ignoreVars, depsVars, stageVars>>

\* a.py ends in LF, b.py ends in CR LF
InitialTree ==
  [p \in Paths |-> IF p = CACHE_FILE THEN Absent
                               ELSE IF p = 2 THEN File(<<LETTER_X, LF>>)
                               ELSE File(<<LETTER_X, CR, LF>>)]

Init ==
  /\ fs = InitialTree
  /\ result = NoResult
  /\ atRun = fs
  /\ runs = 0
  /\ edits = 0
  /\ FormatIdle /\ IgnoreIdle /\ DepsIdle /\ StageIdle

Next ==
  \/ \E root_is_dir \in BOOLEAN, track \in BOOLEAN, incremental \in BOOLEAN :
       aggregate_files(root_is_dir, track, incremental)
  \/ \E p \in SourcePaths, b \in Contents : WriteFile(p, b)
  \/ \E b \in ForeignCacheContents : WriteFile(CACHE_FILE, b)
  \/ \E p \in Paths : DeleteFile(p)
  \/ \E p \in Paths : Chmod(p)

Spec == Init /\ [][Next]_vars

(***************************************************************************)
(* Vocabulary of the properties.                                           *)
(***************************************************************************)
\* the step is a call of aggregate_files
IsRun == runs' = runs + 1

\* the last call returned a document and tracked changes
Tracked(r) == r.status = "ok" /\ r.track_changes

ChangesFor(ch, p) == {i \in 1..Len(ch) : ch[i].file_path = p}

Reported(ch, p, t) == \E i \in ChangesFor(ch, p) : ch[i].change_type = t

HasSection(r, p) == \E i \in 1..Len(r.sections) : r.sections[i].path = p

\* the cache file holds a path -> hash mapping that can be loaded
CacheIsMapping(f) ==
  /\ f[CACHE_FILE].present /\ f[CACHE_FILE].readable
  /\ Decodable(f[CACHE_FILE].bytes)
  /\ json_loads(read_text(f[CACHE_FILE].bytes)).kind = "dict"

\* the mapping written in the cache file, whatever its permissions
HoldsMapping(f, m) ==
  /\ f[CACHE_FILE].present
  /\ Decodable(f[CACHE_FILE].bytes)
  /\ json_loads(read_text(f[CACHE_FILE].bytes)) = [kind |-> "dict", map |-> m]

\* ch is the diff of old against new: one change per differing path
IsDiffOf(ch, old, new) ==
  /\ \A i \in 1..Len(ch) : ch[i].file_path \in DOMAIN old \cup DOMAIN new
  /\ \A p \in DOMAIN old \cup DOMAIN new :
       LET idx == ChangesFor(ch, p)
       IN IF p \notin DOMAIN old
          THEN /\ Cardinality(idx) = 1
               /\ \A i \in idx : ch[i] = FileChange(p, "added", None, new[p])
          ELSE IF p \notin DOMAIN new
          THEN /\ Cardinality(idx) = 1
               /\ \A i \in idx : ch[i] = FileChange(p, "removed", old[p], None)
          ELSE IF old[p] # new[p]
          THEN /\ Cardinality(idx) = 1
               /\ \A i \in idx : ch[i] = FileChange(p, "modified", old[p], new[p])
          ELSE idx = {}

(***************************************************************************)
(* C1: with change tracking (not incremental), a second run over a tree in *)
(* which nothing was created, modified or deleted since the first run      *)
(* reports zero changes, and so does every later run.                      *)
(***************************************************************************)
C1_UnchangedTreeReportsNoChange ==
  [][ ( /\ IsRun
        /\ Tracked(result) /\ ~result.incremental
        /\ fs = atRun
        /\ result'.root_is_dir /\ result'.track_changes /\ ~result'.incremental )
      => ( result'.status = "ok" /\ result'.changes = <<>> ) ]_vars

(***************************************************************************)
(* C2: track_changes returns exactly one change per differing path of the  *)
(* loaded mapping old and the current mapping new (added / modified /      *)
(* removed with the hashes of the two mappings, nothing for an equal       *)
(* hash), and the cache persisted afterwards equals new.                   *)
(***************************************************************************)
C2_TrackChangesIsTheDiff ==
  (Tracked(result) /\ ~result.incremental /\ atRun = fs)
    => /\ IsDiffOf(result.changes, result.cache.map, result.current)
       /\ HoldsMapping(fs, result.current)

\* a run that reported an added, a modified and a removed path at once
C2_Witness ==
  /\ Tracked(result) /\ ~result.incremental /\ atRun = fs
  /\ \E p \in Paths : Reported(result.changes, p, "added")
  /\ \E p \in Paths : Reported(result.changes, p, "modified")
  /\ \E p \in Paths : Reported(result.changes, p, "removed")

(***************************************************************************)
(* C4: with change tracking (not incremental), when a file recorded in the *)
(* cache by the previous run has been deleted and nothing else changed,    *)
(* the next run reports exactly one 'removed' change for that path and no  *)
(* 'removed' change for another path; the run after that no longer         *)
(* reports the path.                                                       *)
(***************************************************************************)
C4_DeletedFileReportedRemovedOnce ==
  [][ \A p \in Paths :
        ( /\ IsRun
          /\ Tracked(result) /\ ~result.incremental
          /\ result'.root_is_dir /\ result'.track_changes /\ ~result'.incremental
          /\ _load_cache(fs) = [kind |-> "dict", map |-> result.current]
          /\ ~fs[p].present
          /\ \A q \in Paths \ {p} : fs[q] = atRun[q] )
        => /\ result'.status = "ok"
           /\ p \in DOMAIN result.current
                => /\ Cardinality(ChangesFor(result'.changes, p)) = 1
                   /\ \A i \in 1..Len(result'.changes) :
                        result'.changes[i].change_type = "removed"
                          <=> result'.changes[i].file_path = p
           /\ Reported(result.changes, p, "removed")
                => ChangesFor(result'.changes, p) = {} ]_vars

\* a run has just reported a deleted source file as removed, the cache
\* having recorded it and another file still being tracked
C4_Witness ==
  /\ Tracked(result) /\ ~result.incremental /\ atRun = fs
  /\ \E p \in SourcePaths :
       /\ ~fs[p].present
       /\ p \in DOMAIN result.cache.map
       /\ Reported(result.changes, p, "removed")
       /\ \E q \in SourcePaths \ {p} : q \in DOMAIN result.current

(***************************************************************************)
(* C10: a call whose root is not an existing directory raises before any   *)
(* processing, whatever the flags: nothing is traversed, no document is    *)
(* produced and the cache file is neither created nor modified.            *)
(***************************************************************************)
C10_InvalidRootAbortsFirst ==
  [][ (IsRun /\ ~result'.root_is_dir)
      => /\ result'.status = "error" /\ result'.error = "ValueError"
         /\ ~result'.traversed /\ result'.candidates = {}
         /\ result'.sections = <<>> /\ result'.changes = <<>>
         /\ fs' = fs ]_vars

\* a call on an invalid root with both flags set has raised, the tree
\* holding a cache file
C10_Witness ==
  /\ result.status = "error" /\ ~result.root_is_dir
  /\ result.track_changes /\ result.incremental
  /\ atRun = fs
  /\ fs[CACHE_FILE].present

(***************************************************************************)
(* C3: after a baseline tracking run, when the content of exactly one file *)
(* has been modified (the file can still be read and decoded), a run with  *)
(* track_changes and incremental reports exactly that file as modified,    *)
(* renders a section for it, and neither reports nor renders an unmodified *)
(* sibling.                                                                *)
(***************************************************************************)
C3_IncrementalReportsOnlyTheModifiedFile ==
  [][ \A p \in SourcePaths :
        ( /\ IsRun
          /\ Tracked(result)
          /\ result'.root_is_dir /\ result'.track_changes /\ result'.incremental
          /\ atRun[p].present /\ fs[p].present
          /\ fs[p].bytes # atRun[p].bytes
          /\ ~MetadataFails(fs, p)
          /\ \A q \in Paths \ {p} : fs[q] = atRun[q] )
        => /\ result'.status = "ok"
           /\ Reported(result'.changes, p, "modified")
           /\ HasSection(result', p)
           /\ \A q \in Paths \ {p} :
                ChangesFor(result'.changes, q) = {} /\ ~HasSection(result', q) ]_vars

(***************************************************************************)
(* C5: with track_changes and incremental, the reported changes are the    *)
(* diff of the loaded cache against the current file set, classified as in *)
(* non-incremental mode: added (old_hash absent), modified (both hashes),  *)
(* removed (new_hash absent).                                              *)
(***************************************************************************)
C5_IncrementalChangesAreTheDiff ==
  (Tracked(result) /\ result.incremental)
    => IsDiffOf(result.changes, result.cache.map, result.current)

(***************************************************************************)
(* C6: a run with incremental set persists the current path -> hash        *)
(* mapping at its end whether or not track_changes is set; hence the       *)
(* second of two consecutive incremental runs over an unchanged tree       *)
(* renders no file.                                                        *)
(***************************************************************************)
C6_IncrementalRunPersistsTheMapping ==
  [][ ( /\ IsRun
        /\ result'.root_is_dir /\ result'.incremental
        /\ result'.status = "ok" )
      => /\ HoldsMapping(fs', new_cache(fs))
         /\ (result.status = "ok" /\ result.incremental /\ fs = atRun)
              => result'.sections = <<>> ]_vars

(***************************************************************************)
(* C7: whatever the cache file holds (absent, unreadable, not parsable, or *)
(* parsable but not a mapping), a tracking or incremental run does not     *)
(* fail because of it and treats the cache as empty; a tracking run then   *)
(* reports every file of the run as added and persists a valid mapping at  *)
(* its end.  (How an incremental run classifies and persists is stated by  *)
(* C5 and C6; here those two parts are asked of the non-incremental run.)  *)
(***************************************************************************)
C7_BadCacheIsTreatedAsEmpty ==
  [][ ( /\ IsRun
        /\ result'.root_is_dir
        /\ result'.track_changes \/ result'.incremental
        /\ ~CacheIsMapping(fs) )
      => /\ result'.error \notin {"TypeError", "AttributeError"}
         /\ result'.status = "ok"
              => /\ result'.cache = EmptyCache
                 /\ ~result'.incremental
                      => /\ \A i \in 1..Len(result'.sections) :
                              Reported(result'.changes,
                                       result'.sections[i].path, "added")
                         /\ HoldsMapping(fs', result'.current) ]_vars

(***************************************************************************)
(* C8: the tracked content hash is over the raw bytes, identically in both *)
(* modes: an edit that changes a file's bytes is reported as modified by   *)
(* the next tracking run, and a file whose bytes are unchanged is not      *)
(* reported as modified when the mode switches between two runs.           *)
(***************************************************************************)
C8_HashIsOverRawBytes ==
  [][ \A p \in SourcePaths :
        ( /\ IsRun
          /\ Tracked(result)
          /\ result'.root_is_dir /\ result'.track_changes
          /\ result'.status = "ok"
          /\ p \in DOMAIN result.current
          /\ _load_cache(fs) = [kind |-> "dict", map |-> result.current]
          /\ atRun[p].present /\ fs[p].present )
        => /\ fs[p].bytes # atRun[p].bytes
                => Reported(result'.changes, p, "modified")
           /\ (fs[p] = atRun[p] /\ result'.incremental # result.incremental)
                => ~Reported(result'.changes, p, "modified") ]_vars

(***************************************************************************)
(* C9: a per-file failure (unreadable, undecodable or unparsable file)     *)
(* never aborts aggregate_files in any mode: the failing file is skipped   *)
(* or rendered with degraded metadata, every other file to process gets    *)
(* its section, and the run returns a document.                            *)
(***************************************************************************)
C9_PerFileFailureDoesNotAbort ==
  [][ ( /\ IsRun
        /\ result'.root_is_dir
        /\ _load_cache(fs).kind = "dict" )
      => /\ result'.status = "ok"
         /\ \A p \in ToProcess(fs, result'.incremental,
                               InitialCache(fs, result'.incremental)) :
              ~MetadataFails(fs, p) => HasSection(result', p)
         /\ \A i \in 1..Len(result'.sections) :
              LET p == result'.sections[i].path
              IN /\ ~MetadataFails(fs, p)
                 /\ result'.sections[i].file_analysis = "Unable to analyze file content"
                      <=> ~Parses(read_text(fs[p].bytes)) ]_vars

(***************************************************************************)
(* C17: the file sections of the document aggregate_files returns are in   *)
(* ascending order of relative path, in whatever order the traversal       *)
(* yielded the files: every order of the same file set gives the same      *)
(* sequence of sections.                                                   *)
(***************************************************************************)
C17_SectionsAreSortedByPath ==
  [][ (IsRun /\ result'.status = "ok")
      => /\ \A i, j \in 1..Len(result'.sections) :
              i < j => result'.sections[i].path < result'.sections[j].path
         /\ {result'.sections[i].path : i \in 1..Len(result'.sections)}
              = Processed(fs, result'.incremental, result'.cache)
         /\ Len(result'.sections)
              = Cardinality(Processed(fs, result'.incremental, result'.cache)) ]_vars

\* a run has rendered the sections of three files
C17_Witness ==
  /\ result.status = "ok" /\ atRun = fs
  /\ Len(result.sections) = 3
  /\ result.sections[1].path = CACHE_FILE
  /\ result.sections[3].path = 3

(***************************************************************************)
(***************************************************************************)
(* The per-file pipeline: get_file_metadata, the table of contents and the *)
(* Markdown document.  Text is a sequence of code points.                  *)
(***************************************************************************)
(***************************************************************************)
trackerVars == <<fs, result, atRun, runs, edits>>

TrackerIdle ==
  fs = Unset /\ result = Unset /\ atRun = Unset /\ runs = 0 /\ edits = 0

\* bounds of the per-file pipeline
MaxLines == 151
MaxFormats == 2

\* code points
SPACE == 32
HYPHEN == 45
DOT == 46
SLASH == 47
DIGIT_0 == 48
DIGIT_9 == 57
UPPER_A == 65
UPPER_Z == 90
LETTER_A == 97
LETTER_Z == 122

\* the chunking of get_file_metadata and the default budget of a formatter
CHUNK_THRESHOLD == 100
CHUNK_LINES == 50
DEFAULT_CHUNK_SIZE == 2000
\* a budget of a few lines
SMALL_CHUNK_SIZE == 25

Min(a, b) == IF a <= b THEN a ELSE b

\* str(n) for n >= 0
RECURSIVE Decimal(_)
Decimal(n) ==
  IF n < 10 THEN <<DIGIT_0 + n>>
  ELSE Decimal(n \div 10) \o <<DIGIT_0 + (n % 10)>>

\* the positions of the line feeds of t between lo and hi, ascending
RECURSIVE LineFeeds(_, _, _)
LineFeeds(t, lo, hi) ==
  IF lo > hi THEN <<>>
  ELSE IF lo = hi THEN IF t[lo] = LF THEN <<lo>> ELSE <<>>
       ELSE LET mid == (lo + hi) \div 2
            IN LineFeeds(t, lo, mid) \o LineFeeds(t, mid + 1, hi)

\* str.splitlines(): a line ends at a line feed or at the end of the text;
\* the text holds no line boundary other than LF
splitlines(t) ==
  LET ends == LineFeeds(t, 1, Len(t))
              \o (IF t # <<>> /\ t[Len(t)] # LF THEN <<Len(t) + 1>> ELSE <<>>)
  IN [k \in 1..Len(ends) |->
        SubSeq(t, IF k = 1 THEN 1 ELSE ends[k - 1] + 1, ends[k] - 1)]

\* '\n'.join(lines)
RECURSIVE join(_)
join(lines) ==
  IF lines = <<>> THEN <<>>
  ELSE IF Len(lines) = 1 THEN lines[1]
       ELSE LET h == Len(lines) \div 2
            IN join(SubSeq(lines, 1, h)) \o <<LF>>
               \o join(SubSeq(lines, h + 1, Len(lines)))

\* str.strip(chars)
RECURSIVE lstrip(_, _)
lstrip(t, chars) ==
  IF t # <<>> /\ Head(t) \in chars THEN lstrip(Tail(t), chars) ELSE t

RECURSIVE rstrip(_, _)
rstrip(t, chars) ==
  IF t # <<>> /\ t[Len(t)] \in chars
  THEN rstrip(SubSeq(t, 1, Len(t) - 1), chars) ELSE t

Whitespace == {SPACE, LF, CR}

strip(t) == rstrip(lstrip(t, Whitespace), Whitespace)

\* str.lower() on ASCII
lower(t) ==
  [i \in 1..Len(t) |-> IF t[i] \in UPPER_A..UPPER_Z
                       THEN t[i] + (LETTER_A - UPPER_A) ELSE t[i]]

\* re.sub(r'[^a-z0-9]+', '-', text)
SlugChars == (LETTER_A..LETTER_Z) \cup (DIGIT_0..DIGIT_9)

\* every run of other characters becomes one hyphen: its first character
\* is replaced, the rest of the run is dropped
Dropped == -1

IsKept(c) == c # Dropped

SubRuns(t) ==
  SelectSeq([i \in 1..Len(t) |->
               IF t[i] \in SlugChars THEN t[i]
               ELSE IF i = 1 \/ t[i - 1] \in SlugChars THEN HYPHEN
                    ELSE Dropped],
            IsKept)

_slugify(text) ==
  rstrip(lstrip(SubRuns(lower(text)), {HYPHEN}), {HYPHEN})

\* Path.suffix: from the last dot of the name, none for a leading dot only
RECURSIVE LastDot(_, _)
LastDot(name, i) ==
  IF i <= 1 THEN 0
  ELSE IF name[i] = DOT THEN i ELSE LastDot(name, i - 1)

suffix(name) ==
  LET i == LastDot(name, Len(name))
  IN IF i = 0 THEN <<>> ELSE SubSeq(name, i, Len(name))

\* ".py"
EXT_PY == <<DOT, 112, 121>>

\* get_language_from_path: of the extensions of the map only .py occurs here
get_language_from_path(name) ==
  IF lower(suffix(name)) = EXT_PY THEN "python" ELSE "plaintext"

(***************************************************************************)
(* The files handed to get_file_metadata.  A file has a directory under    *)
(* the root, a name, a text of nlines lines, the syntax tree of that text  *)
(* (the names of its ClassDef and FunctionDef nodes in the order of        *)
(* ast.walk), a generated purpose and possibly a user summary.             *)
(***************************************************************************)
\* "a.py", "a.py.part.1", "A_py"
NAME_A_PY == <<LETTER_A, DOT, 112, 121>>
NAME_A_PY_PART_1 == NAME_A_PY \o <<DOT, 112, 97, 114, 116, DOT, DIGIT_0 + 1>>
NAME_UPPER_A_PY == <<UPPER_A, 95, 112, 121>>

FileNames == {NAME_A_PY, NAME_A_PY_PART_1, NAME_UPPER_A_PY}

\* the root itself and "sub"
DIR_ROOT == <<>>
DIR_SUB == <<115, 117, 98>>

Dirs == {DIR_ROOT, DIR_SUB}

\* class and function names: "A", "B", "f", "g", "m"
NoTree == [classes |-> <<>>, functions |-> <<>>]

\* class B with a method m, class A, g with a nested m, f
SomeTree ==
  [classes |-> <<<<UPPER_A + 1>>, <<UPPER_A>>>>,
   functions |-> <<<<103>>, <<102>>, <<109>>, <<109>>>>]

Trees == {NoTree, SomeTree}

\* a purpose text "p", a user summary "u"; <<>> when there is none
Purposes == {<<>>, <<112>>}
Summaries == {<<>>, <<117>>}

\* line i of a text is written as the last digit of i
LineText(i) == <<DIGIT_0 + (i % 10)>>

\* the least number of lines of a text that defines the names of SomeTree
TreeLines == 10

Text(nlines, final_newline) ==
  join([i \in 1..nlines |-> LineText(i)])
  \o (IF final_newline /\ nlines > 0 THEN <<LF>> ELSE <<>>)

DiskFile(dir, name, nlines, final_newline, tree, purpose, user_summary) ==
  [dir |-> dir, file_name |-> name, text |-> Text(nlines, final_newline),
   tree |-> tree, purpose |-> purpose, user_summary |-> user_summary]

\* one file of any length
LongFiles ==
  {DiskFile(DIR_ROOT, NAME_A_PY, n, nl, NoTree, <<112>>, <<>>) :
     n \in 0..MaxLines, nl \in BOOLEAN}
  \cup {DiskFile(DIR_ROOT, NAME_A_PY, n, nl, SomeTree, <<112>>, <<>>) :
          n \in TreeLines..MaxLines, nl \in BOOLEAN}

\* short and just chunked files of every name
SmallFiles ==
  {DiskFile(d, name, n, TRUE, t, pu, us) :
     d \in Dirs, name \in FileNames, n \in {TreeLines, CHUNK_THRESHOLD + 1},
     t \in Trees, pu \in Purposes, us \in Summaries}

relative_path(d) ==
  IF d.dir = DIR_ROOT THEN d.file_name ELSE d.dir \o <<SLASH>> \o d.file_name

\* files with a purpose and no user summary; those of them that are short
\* and define nothing
PlainFiles == {x \in SmallFiles : x.purpose # <<>> /\ x.user_summary = <<>>}

ShortFiles ==
  {x \in PlainFiles : Len(splitlines(x.text)) <= CHUNK_THRESHOLD /\ x.tree = NoTree}

\* texts of three lines of which any may be blank, and texts whose lines
\* after the first are indented by one space
BlankLayouts ==
  {join([i \in 1..3 |-> IF i \in blank THEN <<>> ELSE LineText(i)]) \o <<LF>> :
     blank \in SUBSET (1..3)}

IndentedLayouts ==
  {join([i \in 1..n |-> IF i = 1 THEN LineText(i) ELSE <<SPACE>> \o LineText(i)])
   \o <<LF>> : n \in {TreeLines, CHUNK_THRESHOLD + 1}}

LayoutFiles ==
  {[DiskFile(DIR_ROOT, NAME_A_PY, 0, TRUE, NoTree, <<112>>, <<>>)
      EXCEPT !.text = t] : t \in BlankLayouts \union IndentedLayouts}

\* the lists of files a caller may hand over: one file, or two files of
\* different paths of which the second is short
DiskLists ==
  {<<d>> : d \in LongFiles \cup SmallFiles \cup LayoutFiles}
  \cup {p \in PlainFiles \X ShortFiles : relative_path(p[1]) # relative_path(p[2])}

(***************************************************************************)
(* get_file_metadata: the chunks (lines 553-570) and the object.           *)
(***************************************************************************)
ChunkMetadata(lines, i) ==
  [start_line |-> i + 1,
   end_line |-> Min(i + CHUNK_LINES, Len(lines)),
   content |-> join(SubSeq(lines, i + 1, Min(i + CHUNK_LINES, Len(lines)))),
   summary |-> [first |-> i + 1, last |-> Min(i + CHUNK_LINES, Len(lines))]]

\* range(0, len(lines), chunk_size)
ChunkStarts(n) == {i \in 0..(n - 1) : i % CHUNK_LINES = 0}

\* mutant: the last, shorter chunk is lost
Chunks_DropRemainder(content) ==
  LET lines == splitlines(content)
  IN IF Len(lines) > CHUNK_THRESHOLD
     THEN [k \in 1..(Len(lines) \div CHUNK_LINES) |->
             ChunkMetadata(lines, (k - 1) * CHUNK_LINES)]
     ELSE <<>>

Chunks(content) ==
  LET lines == splitlines(content)
  IN IF Len(lines) > CHUNK_THRESHOLD
     THEN [k \in 1..Cardinality(ChunkStarts(Len(lines))) |->
             ChunkMetadata(lines, (k - 1) * CHUNK_LINES)]
     ELSE <<>>

\* a TOC entry; the title and the summary are kept as their parts
TOCEntry(title, level, anchor, summary) ==
  [title |-> title, level |-> level, anchor |-> anchor, summary |-> summary]

FileTitle(name) == [kind |-> "file", name |-> name, part |-> 0]
ClassTitle(name) == [kind |-> "Class", name |-> name, part |-> 0]
FunctionTitle(name) == [kind |-> "Function", name |-> name, part |-> 0]
PartTitle(name, i) == [kind |-> "Part", name |-> name, part |-> i]

TextSummary(t) == [kind |-> "text", text |-> t, first |-> 0, last |-> 0]
DefinitionSummary(kind, name) == [kind |-> kind, text |-> name, first |-> 0, last |-> 0]
LinesSummary(a, b) == [kind |-> "Lines", text |-> <<>>, first |-> a, last |-> b]

\* sorted(names): ascending by code point, duplicates kept
Before(a, b) ==
  \E k \in 1..(Min(Len(a), Len(b)) + 1) :
    /\ \A j \in 1..(k - 1) : a[j] = b[j]
    /\ IF k > Len(a) THEN k <= Len(b)
       ELSE k <= Len(b) /\ a[k] < b[k]

RECURSIVE Insert(_, _)
Insert(x, s) ==
  IF s = <<>> THEN <<x>>
  ELSE IF Before(x, Head(s)) THEN <<x>> \o s
       ELSE <<Head(s)>> \o Insert(x, Tail(s))

RECURSIVE sorted(_)
sorted(s) == IF s = <<>> THEN <<>> ELSE Insert(s[Len(s)], sorted(SubSeq(s, 1, Len(s) - 1)))

\* "-class-", "-function-", "-part-"
INFIX_CLASS == <<HYPHEN, 99, 108, 97, 115, 115, HYPHEN>>
INFIX_FUNCTION == <<HYPHEN, 102, 117, 110, 99, 116, 105, 111, 110, HYPHEN>>
INFIX_PART == <<HYPHEN, 112, 97, 114, 116, HYPHEN>>

\* FileMetadata.generate_toc_entries: the new value of toc_entries
generate_toc_entries(m) ==
  LET main ==
        <<TOCEntry(FileTitle(m.file_name), 1, _slugify(m.file_name),
                   TextSummary(IF m.purpose # <<>> THEN m.purpose
                               ELSE m.user_summary))>>
      classes == sorted(m.tree.classes)
      functions == sorted(m.tree.functions)
      analysed == m._file_analysis # "" /\ Parses(m.content)
      class_entries ==
        IF analysed
        THEN [k \in 1..Len(classes) |->
                TOCEntry(ClassTitle(classes[k]), 2,
                         _slugify(m.file_name \o INFIX_CLASS \o classes[k]),
                         DefinitionSummary("Class", classes[k]))]
        ELSE <<>>
      function_entries ==
        IF analysed
        THEN [k \in 1..Len(functions) |->
                TOCEntry(FunctionTitle(functions[k]), 2,
                         _slugify(m.file_name \o INFIX_FUNCTION \o functions[k]),
                         DefinitionSummary("Function", functions[k]))]
        ELSE <<>>
      chunk_entries ==
        [k \in 1..Len(m.chunks) |->
           TOCEntry(PartTitle(m.file_name, k), 2,
                    _slugify(m.file_name \o INFIX_PART \o Decimal(k)),
                    LinesSummary(m.chunks[k].start_line, m.chunks[k].end_line))]
  IN main \o class_entries \o function_entries \o chunk_entries

\* the object get_file_metadata returns: _file_analysis is not computed yet
\* ("" stands for None), the TOC entries are generated last (line 586)
FileMetadata(d) ==
  LET m == [file_name |-> d.file_name, relative_path |-> relative_path(d),
            content |-> d.text,
            language_id |-> get_language_from_path(d.file_name),
            purpose |-> d.purpose, user_summary |-> d.user_summary,
            tree |-> d.tree,
            chunks |-> Chunks(d.text),
            chunk_info |-> Len(Chunks(d.text)),
            _file_analysis |-> "",
            toc_entries |-> <<>>]
  IN [m EXCEPT !.toc_entries = generate_toc_entries(m)]

\* FileMetadata.file_analysis: computed on the first access, then cached
file_analysis(m) ==
  IF m._file_analysis = ""
  THEN IF Parses(m.content) THEN "Quick Analysis"
       ELSE "Unable to analyze file content"
  ELSE m._file_analysis

\* FileMetadata.formatted_content: one fenced block per chunk, each under a
\* header with its index and its recorded lines; one block without header
\* when there are no chunks
Block(index, of, first, last, language_id, code) ==
  [index |-> index, of |-> of, first |-> first, last |-> last,
   language_id |-> language_id, code |-> code]

formatted_content(m) ==
  IF m.chunks = <<>>
  THEN <<Block(0, 0, 0, 0, m.language_id, strip(m.content))>>
  ELSE [k \in 1..Len(m.chunks) |->
          Block(k, Len(m.chunks), m.chunks[k].start_line, m.chunks[k].end_line,
                m.language_id, strip(m.chunks[k].content))]

(***************************************************************************)
(* BaseFormatter._chunk_content and MarkdownFormatter.format.              *)
(***************************************************************************)
\* the running total of line_size (len(line) + 1) over the lines
RECURSIVE Sizes(_)
Sizes(lines) ==
  IF lines = <<>> THEN <<>>
  ELSE IF Len(lines) = 1 THEN <<Len(lines[1]) + 1>>
       ELSE LET h == Len(lines) \div 2
                left == Sizes(SubSeq(lines, 1, h))
                right == Sizes(SubSeq(lines, h + 1, Len(lines)))
            IN left \o [k \in 1..Len(right) |-> right[k] + left[h]]

\* the loop of lines 890-900, one chunk at a time: the chunk opened at line
\* start takes that line and then every further line as long as
\* current_size + line_size does not exceed chunk_size
RECURSIVE ChunkLoop(_, _, _, _)
ChunkLoop(lines, sizes, start, chunk_size) ==
  IF start > Len(lines) THEN <<>>
  ELSE LET before == IF start = 1 THEN 0 ELSE sizes[start - 1]
           Fits(e) == e = start \/ sizes[e] - before <= chunk_size
           last == CHOOSE e \in start..Len(lines) :
                     Fits(e) /\ (e = Len(lines) \/ ~Fits(e + 1))
       IN <<join(SubSeq(lines, start, last))>>
          \o ChunkLoop(lines, sizes, last + 1, chunk_size)

\* mutant: a chunk is closed as soon as the next line would reach chunk_size
_chunk_content_ClosesEarly(content, chunk_size) ==
  IF chunk_size <= 0 THEN <<content>>
  ELSE ChunkLoop(splitlines(content), Sizes(splitlines(content)), 1,
                 chunk_size - 1)

_chunk_content(content, chunk_size) ==
  IF chunk_size <= 0 THEN <<content>>
  ELSE ChunkLoop(splitlines(content), Sizes(splitlines(content)), 1, chunk_size)

\* the chunks format renders for a file (line 944)
RenderedChunks(m, chunk_size) ==
  IF m.chunks = <<>> THEN _chunk_content(m.content, chunk_size)
  ELSE [k \in 1..Len(m.chunks) |-> m.chunks[k].content]

\* one line of the table of contents
TOCLine(m, entry) ==
  [title |-> entry.title, level |-> entry.level, anchor |-> entry.anchor,
   summary |-> entry.summary,
   parts |-> IF entry.level = 1 THEN Len(m.chunks) ELSE 0]

\* one "## file" section: heading, purpose, analysis, metadata block, the
\* header of the chunk (lines 1023-1025) and the fenced code
Section(m, chunks, i, chunk_size) ==
  LET several == Len(chunks) > 1
  IN [file_name |-> m.file_name,
      part |-> IF several THEN i + 1 ELSE 0,
      of |-> IF several THEN Len(chunks) ELSE 0,
      anchor |-> IF several
                 THEN _slugify(m.file_name) \o INFIX_PART \o Decimal(i + 1)
                 ELSE _slugify(m.file_name),
      purpose |-> m.purpose,
      file_analysis |-> file_analysis(m),
      relative_path |-> m.relative_path,
      language_id |-> m.language_id,
      chunk_info |-> m.chunk_info,
      first |-> IF several THEN i * chunk_size + 1 ELSE 0,
      last |-> IF several
               THEN Min((i + 1) * chunk_size, Len(splitlines(chunks[i + 1])))
               ELSE 0,
      code |-> strip(chunks[i + 1])]

RECURSIVE Flatten(_)
Flatten(ss) == IF ss = <<>> THEN <<>> ELSE Head(ss) \o Flatten(Tail(ss))

\* the files after the TOC entries were regenerated (lines 923-924)
Regenerated(fl) ==
  [k \in 1..Len(fl) |-> [fl[k] EXCEPT !.toc_entries = generate_toc_entries(fl[k])]]

\* the document format returns
Document(fl, chunk_size) ==
  LET re == Regenerated(fl)
  IN [toc |-> Flatten([k \in 1..Len(re) |->
                         [e \in 1..Len(re[k].toc_entries) |->
                            TOCLine(re[k], re[k].toc_entries[e])]]),
      sections |-> Flatten([k \in 1..Len(re) |->
                              LET chunks == RenderedChunks(re[k], chunk_size)
                              IN [i \in 1..Len(chunks) |->
                                    Section(re[k], chunks, i - 1, chunk_size)]])]

\* the objects after the call: the analysis of every rendered file is cached
AfterFormat(fl, chunk_size) ==
  LET re == Regenerated(fl)
  IN [k \in 1..Len(re) |->
        IF RenderedChunks(re[k], chunk_size) # <<>>
        THEN [re[k] EXCEPT !._file_analysis = file_analysis(re[k])]
        ELSE re[k]]

\* the budgets a formatter is created with
ChunkSizes == {0, SMALL_CHUNK_SIZE, DEFAULT_CHUNK_SIZE}

GetFileMetadata ==
  /\ files = Unset
  /\ files' = [k \in 1..Len(disk) |-> FileMetadata(disk[k])]
  /\ UNCHANGED <<disk, docs, trackerVars, ignoreVars, depsVars, stageVars>>

MarkdownFormatter_format(chunk_size) ==
  /\ files # Unset
  /\ Len(docs) < MaxFormats
  /\ docs' = Append(docs, [chunk_size |-> chunk_size,
                           document |-> Document(files, chunk_size)])
  /\ files' = AfterFormat(files, chunk_size)
  /\ UNCHANGED <<disk, trackerVars, ignoreVars, depsVars, stageVars>>

FormatInit ==
  /\ disk \in DiskLists
  /\ files = Unset
  /\ docs = Unset
  /\ TrackerIdle /\ IgnoreIdle /\ DepsIdle /\ StageIdle

FormatNext ==
  \/ GetFileMetadata
  \/ \E chunk_size \in ChunkSizes : MarkdownFormatter_format(chunk_size)

FormatSpec == FormatInit /\ [][FormatNext]_vars

(***************************************************************************)
(* Vocabulary of the properties of the pipeline.                           *)
(***************************************************************************)
\* the objects get_file_metadata has built
Built == {files[k] : k \in 1..Len(files)}

LineCount(m) == Len(splitlines(m.content))

\* the sections a document holds for a file
SectionsOf(document, m) ==
  SelectSeq(document.sections, LAMBDA x : x.relative_path = m.relative_path)

\* the step is a call of format
IsFormat == Len(docs') = Len(docs) + 1

EntriesOfKind(entries, kind) ==
  SelectSeq(entries, LAMBDA e : e.title.kind = kind)

KindRank(kind) ==
  CASE kind = "file" -> 1 [] kind = "Class" -> 2 [] kind = "Function" -> 3
    [] kind = "Part" -> 4

(***************************************************************************)
(* C11: for a file of more than 100 lines get_file_metadata produces       *)
(* chunks of 50 lines that are contiguous and cover every line once: the   *)
(* first starts at line 1, each starts right after the previous one ends,  *)
(* the last ends at the last line, every chunk but the last has 50 lines,  *)
(* none is empty, each holds its lines joined by newlines and is           *)
(* summarised by its line range; a file of at most 100 lines has no        *)
(* chunks.                                                                 *)
(***************************************************************************)
C11_ChunksCoverEveryLineOnce ==
  \A m \in Built :
    LET lines == splitlines(m.content)
        ch == m.chunks
        n == Len(ch)
    IN IF Len(lines) > 100
       THEN /\ n > 0
            /\ ch[1].start_line = 1
            /\ \A k \in 1..(n - 1) : ch[k].end_line + 1 = ch[k + 1].start_line
            /\ ch[n].end_line = Len(lines)
            /\ \A k \in 1..(n - 1) : ch[k].end_line - ch[k].start_line + 1 = 50
            /\ \A k \in 1..n :
                 /\ ch[k].start_line <= ch[k].end_line
                 /\ ch[k].end_line - ch[k].start_line + 1 <= 50
                 /\ ch[k].content
                      = join(SubSeq(lines, ch[k].start_line, ch[k].end_line))
                 /\ ch[k].summary
                      = [first |-> ch[k].start_line, last |-> ch[k].end_line]
       ELSE ch = <<>>

\* a file of 151 lines was split into three full chunks and a last chunk
\* of one line
C11_Witness ==
  \E m \in Built :
    /\ LineCount(m) = 151
    /\ Len(m.chunks) = 4
    /\ m.chunks[4].start_line = 151 /\ m.chunks[4].end_line = 151

(***************************************************************************)
(* C12: a file that does not exceed the chunking threshold (and is not     *)
(* empty) is never split: it has no chunks, formatted_content renders it   *)
(* as one block, and a Markdown document rendered with a positive          *)
(* chunk_size holds exactly one section, hence one code block, for it.     *)
(***************************************************************************)
C12_SmallFileIsNeverSplit ==
  \A m \in Built :
    (LineCount(m) >= 1 /\ LineCount(m) <= 100)
      => /\ m.chunks = <<>>
         /\ Len(formatted_content(m)) = 1
         /\ \A k \in 1..Len(docs) :
              docs[k].chunk_size > 0
                => Len(SectionsOf(docs[k].document, m)) = 1

(***************************************************************************)
(* C13: for a file rendered from its recorded chunks, the line range in    *)
(* the header of the i-th section of a document equals the recorded        *)
(* start_line-end_line of the i-th chunk, for every positive chunk_size.   *)
(***************************************************************************)
C13_ChunkHeaderShowsRecordedLines ==
  \A m \in Built : \A k \in 1..Len(docs) :
    (m.chunks # <<>> /\ docs[k].chunk_size > 0)
      => LET sec == SectionsOf(docs[k].document, m)
         IN /\ Len(sec) = Len(m.chunks)
            /\ \A i \in 1..Len(sec) :
                 /\ sec[i].first = m.chunks[i].start_line
                 /\ sec[i].last = m.chunks[i].end_line

(***************************************************************************)
(* C14: the anchors of the TOC entries of one rendered document are        *)
(* pairwise distinct.                                                      *)
(***************************************************************************)
C14_TocAnchorsAreDistinct ==
  \A k \in 1..Len(docs) :
    LET toc == docs[k].document.toc
    IN \A i, j \in 1..Len(toc) : i # j => toc[i].anchor # toc[j].anchor

(***************************************************************************)
(* C15: the TOC entries get_file_metadata builds for a file are, in this   *)
(* order: one level-1 entry titled by the file name and summarised by the  *)
(* purpose (the user summary when there is no purpose); one level-2 entry  *)
(* per class of the file, sorted by name; one level-2 entry per function,  *)
(* sorted by name; one level-2 entry per chunk, in chunk order, titled     *)
(* '<file name> (Part i)' and summarised by 'Lines start-end'.             *)
(***************************************************************************)
C15_TocEntriesOfAFile ==
  docs = Unset =>
    \A m \in Built :
      LET e == m.toc_entries
          cl == EntriesOfKind(e, "Class")
          fn == EntriesOfKind(e, "Function")
          pt == EntriesOfKind(e, "Part")
      IN /\ Len(e) >= 1
         /\ e[1].level = 1 /\ e[1].title = FileTitle(m.file_name)
         /\ e[1].summary = TextSummary(IF m.purpose # <<>> THEN m.purpose
                                       ELSE m.user_summary)
         /\ \A i \in 2..Len(e) : e[i].level = 2 /\ e[i].title.kind # "file"
         /\ \A i, j \in 1..Len(e) :
              i < j => KindRank(e[i].title.kind) <= KindRank(e[j].title.kind)
         /\ [i \in 1..Len(cl) |-> cl[i].title.name] = sorted(m.tree.classes)
         /\ [i \in 1..Len(fn) |-> fn[i].title.name] = sorted(m.tree.functions)
         /\ Len(pt) = Len(m.chunks)
         /\ \A i \in 1..Len(pt) :
              /\ pt[i].title = PartTitle(m.file_name, i)
              /\ pt[i].summary = LinesSummary(m.chunks[i].start_line,
                                              m.chunks[i].end_line)

(***************************************************************************)
(* C16: formatting has no hidden state: a format call leaves the analysis  *)
(* and the TOC entries of every file as they were, and a second call with  *)
(* the same chunk_size on the same list returns the same document as the   *)
(* first.                                                                  *)
(***************************************************************************)
C16_FormatIsDeterministic ==
  [][ IsFormat
      => /\ \A k \in 1..Len(files) :
              /\ file_analysis(files'[k]) = file_analysis(files[k])
              /\ files'[k].toc_entries = files[k].toc_entries
         /\ (docs # <<>> /\ docs[Len(docs)].chunk_size = docs'[Len(docs')].chunk_size)
              => docs'[Len(docs')].document = docs[Len(docs)].document ]_vars

(***************************************************************************)
(***************************************************************************)
(* The filter of the traversal: the built-in ignore patterns, the rules of *)
(* the root's .gitignore and the exclusions of the caller.                 *)
(***************************************************************************)
(***************************************************************************)
STAR == 42
HASH == 35
MAX_FILE_SIZE == 1000000

\* s holds sub / starts with pre / ends with suf
Contains(s, sub) ==
  \E i \in 0..(Len(s) - Len(sub)) : SubSeq(s, i + 1, i + Len(sub)) = sub

StartsWith(s, pre) == Len(pre) <= Len(s) /\ SubSeq(s, 1, Len(pre)) = pre

EndsWith(s, suf) ==
  Len(suf) <= Len(s) /\ SubSeq(s, Len(s) - Len(suf) + 1, Len(s)) = suf

\* str(path): the parts joined by '/'
RECURSIVE PathStr(_)
PathStr(parts) ==
  IF parts = <<>> THEN <<>>
  ELSE IF Len(parts) = 1 THEN parts[1]
       ELSE parts[1] \o <<SLASH>> \o PathStr(Tail(parts))

\* the built-in patterns of should_ignore_file, by the way re.search uses
\* them: those found anywhere in the path and those anchored at its end
\* node_modules, .git/, __pycache__, .pytest_cache, .coverage, .tox, .env,
\* .venv, venv/, env/, build/, dist/, .egg-info, .mypy_cache
SearchedPatterns ==
  {<<110, 111, 100, 101, 95, 109, 111, 100, 117, 108, 101, 115>>,
   <<46, 103, 105, 116, 47>>,
   <<95, 95, 112, 121, 99, 97, 99, 104, 101, 95, 95>>,
   <<46, 112, 121, 116, 101, 115, 116, 95, 99, 97, 99, 104, 101>>,
   <<46, 99, 111, 118, 101, 114, 97, 103, 101>>,
   <<46, 116, 111, 120>>,
   <<46, 101, 110, 118>>,
   <<46, 118, 101, 110, 118>>,
   <<118, 101, 110, 118, 47>>,
   <<101, 110, 118, 47>>,
   <<98, 117, 105, 108, 100, 47>>,
   <<100, 105, 115, 116, 47>>,
   <<46, 101, 103, 103, 45, 105, 110, 102, 111>>,
   <<46, 109, 121, 112, 121, 95, 99, 97, 99, 104, 101>>}

\* .DS_Store, Thumbs.db, .pyc, .pyo, .pyd (each anchored with $)
EndPatterns ==
  {<<46, 68, 83, 95, 83, 116, 111, 114, 101>>,
   <<84, 104, 117, 109, 98, 115, 46, 100, 98>>,
   <<46, 112, 121, 99>>,
   <<46, 112, 121, 111>>,
   <<46, 112, 121, 100>>}

BuiltinIgnored(str_path) ==
  \/ \E pattern \in SearchedPatterns : Contains(str_path, pattern)
  \/ \E pattern \in EndPatterns : EndsWith(str_path, pattern)

\* fnmatch.fnmatch on a POSIX system, for patterns of literals and '*'
RECURSIVE fnmatch(_, _)
fnmatch(name, pat) ==
  IF pat = <<>> THEN name = <<>>
  ELSE IF Head(pat) = STAR
       THEN \/ fnmatch(name, Tail(pat))
            \/ name # <<>> /\ fnmatch(Tail(name), pat)
       ELSE /\ name # <<>>
            /\ Head(name) = Head(pat)
            /\ fnmatch(Tail(name), Tail(pat))

\* GitIgnoreFilter._load_gitignore: the patterns one line contributes
PatternsOfLine(raw) ==
  LET line == strip(raw)
  IN IF line = <<>> \/ Head(line) = HASH THEN <<>>
     ELSE LET trimmed == rstrip(line, {SLASH})
              pattern == IF trimmed # <<>> /\ Head(trimmed) = SLASH
                         THEN Tail(trimmed) ELSE trimmed
          IN IF SLASH \notin Range(pattern) /\ ~StartsWith(pattern, <<STAR>>)
             THEN <<pattern \o <<SLASH, STAR, STAR>>, pattern>>
             ELSE IF ~StartsWith(pattern, <<STAR>>) /\ ~StartsWith(pattern, <<SLASH>>)
                  THEN <<<<STAR, STAR, SLASH>> \o pattern>>
                  ELSE <<pattern>>

\* the lines of the file in order; no pattern when there is no .gitignore
_load_gitignore(lines) ==
  Flatten([k \in 1..Len(lines) |-> PatternsOfLine(lines[k])])

\* GitIgnoreFilter.should_ignore: the relative path and each of its parent
\* directories, with and without a trailing slash, against each pattern
paths_to_check(parts) ==
  <<PathStr(parts)>>
  \o Flatten([k \in 1..(Len(parts) - 1) |->
                LET parent_str == PathStr(SubSeq(parts, 1, Len(parts) - k))
                IN <<parent_str \o <<SLASH>>, parent_str>>])

should_ignore(filter, parts) ==
  \E k \in 1..Len(filter.patterns) :
    \E path_to_check \in Range(paths_to_check(parts)) :
      fnmatch(path_to_check, filter.patterns[k])

\* Path.parts of the absolute path and str(file_path)
AbsoluteParts(w) == <<<<SLASH>>>> \o w.root \o w.path
AbsoluteStr(w) == <<SLASH>> \o PathStr(w.root \o w.path)

should_ignore_file(w, filter) ==
  BuiltinIgnored(AbsoluteStr(w)) \/ should_ignore(filter, w.path)

\* lines 1278-1285: a part of the absolute path starts with an exclusion
Excluded(w) ==
  \E k \in 1..Len(w.exclude_dirs) :
    \E part \in Range(AbsoluteParts(w)) : StartsWith(part, w.exclude_dirs[k])

\* the extensions is_text_file rejects
binary_extensions ==
  {<<46, 112, 100, 102>>,
   <<46, 100, 111, 99>>,
   <<46, 100, 111, 99, 120>>,
   <<46, 120, 108, 115>>,
   <<46, 120, 108, 115, 120>>,
   <<46, 122, 105, 112>>,
   <<46, 116, 97, 114>>,
   <<46, 103, 122>>,
   <<46, 55, 122>>,
   <<46, 114, 97, 114>>,
   <<46, 101, 120, 101>>,
   <<46, 100, 108, 108>>,
   <<46, 115, 111>>,
   <<46, 100, 121, 108, 105, 98>>,
   <<46, 106, 112, 103>>,
   <<46, 106, 112, 101, 103>>,
   <<46, 112, 110, 103>>,
   <<46, 103, 105, 102>>,
   <<46, 98, 109, 112>>,
   <<46, 109, 112, 51>>,
   <<46, 109, 112, 52>>,
   <<46, 97, 118, 105>>,
   <<46, 109, 111, 118>>,
   <<46, 116, 116, 102>>,
   <<46, 111, 116, 102>>,
   <<46, 119, 111, 102, 102>>,
   <<46, 119, 111, 102, 102, 50>>,
   <<46, 112, 121, 99>>,
   <<46, 112, 121, 111>>,
   <<46, 112, 121, 100>>,
   <<46, 111>>,
   <<46, 111, 98, 106>>,
   <<46, 98, 105, 110>>,
   <<46, 100, 97, 116>>,
   <<46, 100, 98>>,
   <<46, 115, 113, 108, 105, 116, 101>>,
   <<46, 115, 113, 108, 105, 116, 101, 51>>,
   <<46, 106, 97, 114>>,
   <<46, 119, 97, 114>>,
   <<46, 101, 97, 114>>,
   <<46, 99, 108, 97, 115, 115>>,
   <<46, 112, 97, 107>>,
   <<46, 99, 97, 99, 104, 101>>,
   <<46, 105, 99, 111>>,
   <<46, 105, 99, 110, 115>>,
   <<46, 116, 105, 102>>,
   <<46, 116, 105, 102, 102>>,
   <<46, 114, 97, 119>>,
   <<46, 119, 97, 118>>,
   <<46, 97, 97, 99>>,
   <<46, 109, 52, 97>>,
   <<46, 109, 107, 118>>,
   <<46, 119, 109, 118>>,
   <<46, 102, 108, 118>>,
   <<46, 105, 115, 111>>,
   <<46, 105, 109, 103>>,
   <<46, 115, 118, 103, 122>>,
   <<46, 101, 111, 116>>,
   <<46, 109, 115, 105>>,
   <<46, 97, 112, 112>>,
   <<46, 112, 100, 98>>,
   <<46, 105, 108, 107>>,
   <<46, 118, 115, 105, 120>>}

is_text_file(name) == lower(suffix(name)) \notin binary_extensions

(***************************************************************************)
(* The inputs of the filter: roots, ignore files, exclusions and paths.    *)
(***************************************************************************)
\* the resolved root, as the parts below '/': /w and /env/w
Roots == {<<<<119>>>>, <<<<101, 110, 118>>, <<119>>>>}

\* lines of a .gitignore, with their newline
\* '*.tmp'
RULE_TMP == <<42, 46, 116, 109, 112, 10>>
\* '# out'
RULE_COMMENT == <<35, 32, 111, 117, 116, 10>>

\* those two and '/build/', 'out', '/out/', '/*.tmp' and the blank line
Rules ==
  {RULE_TMP, RULE_COMMENT,
   <<47, 98, 117, 105, 108, 100, 47, 10>>,
   <<111, 117, 116, 10>>,
   <<47, 111, 117, 116, 47, 10>>,
   <<47, 42, 46, 116, 109, 112, 10>>,
   <<10>>}

\* no .gitignore, one of one line, and those of two lines that start with
\* the rule for .tmp files or with a comment
GitIgnoreFiles ==
  {<<>>} \union {<<r>> : r \in Rules}
         \union {<<r1, r2>> : r1 \in {RULE_TMP, RULE_COMMENT}, r2 \in Rules}

\* exclude_dirs: none, or one of 'ests', 'tes', 'out', 'sub/out'
ExcludeDirs ==
  {<<>>} \union {<<e>> : e \in {<<101, 115, 116, 115>>, <<116, 101, 115>>, <<111, 117, 116>>, <<115, 117, 98, 47, 111, 117, 116>>}}

\* the files of the tree, as the parts of their path relative to the root:
\* a.tmp, sub/a.tmp, build/x.py, sub/build/x.py, out/x.py, sub/out/x.py, keep.py, tests/a.py, a.png
WalkPaths ==
  {<<<<97, 46, 116, 109, 112>>>>,
   <<<<115, 117, 98>>, <<97, 46, 116, 109, 112>>>>,
   <<<<98, 117, 105, 108, 100>>, <<120, 46, 112, 121>>>>,
   <<<<115, 117, 98>>, <<98, 117, 105, 108, 100>>, <<120, 46, 112, 121>>>>,
   <<<<111, 117, 116>>, <<120, 46, 112, 121>>>>,
   <<<<115, 117, 98>>, <<111, 117, 116>>, <<120, 46, 112, 121>>>>,
   <<<<107, 101, 101, 112, 46, 112, 121>>>>,
   <<<<116, 101, 115, 116, 115>>, <<97, 46, 112, 121>>>>,
   <<<<97, 46, 112, 110, 103>>>>}

FileSizes == {1, MAX_FILE_SIZE + 1}

Walks ==
  [root : Roots, gitignore : GitIgnoreFiles, exclude_dirs : ExcludeDirs,
   path : WalkPaths, size : FileSizes]

(***************************************************************************)
(* The operations of the filter.                                           *)
(***************************************************************************)
\* GitIgnoreFilter.__init__ (line 1260: constructed for the resolved root)
GitIgnoreFilter_init ==
  /\ git_ignore_filter = Unset
  /\ git_ignore_filter' = [root_dir |-> walk.root,
                           patterns |-> _load_gitignore(walk.gitignore)]
  /\ UNCHANGED <<walk, matched, verdict, trackerVars, formatVars, depsVars,
                 stageVars>>

\* git_ignore_filter.should_ignore(file_path), as the test calls it
GitIgnoreFilter_should_ignore ==
  /\ git_ignore_filter # Unset
  /\ matched = Unset
  /\ matched' = [value |-> should_ignore(git_ignore_filter, walk.path)]
  /\ UNCHANGED <<walk, git_ignore_filter, verdict, trackerVars, formatVars,
                 depsVars, stageVars>>

\* one turn of the loop of aggregate_files (lines 1274-1291): each check
\* that fails ends the turn, what passes all of them is processed
Visit(w, filter) ==
  LET ignored == should_ignore_file(w, filter)
      skip == ~ignored /\ Excluded(w)
      too_large == w.size > MAX_FILE_SIZE
      text == is_text_file(w.path[Len(w.path)])
  IN [ignored |-> ignored,
      skip |-> skip,
      processed |-> ~ignored /\ ~skip /\ ~too_large /\ text]

VisitFile ==
  /\ git_ignore_filter # Unset
  /\ verdict = Unset
  /\ verdict' = Visit(walk, git_ignore_filter)
  /\ UNCHANGED <<walk, git_ignore_filter, matched, trackerVars, formatVars,
                 depsVars, stageVars>>

IgnoreInit ==
  /\ walk \in Walks
  /\ git_ignore_filter = Unset
  /\ matched = Unset
  /\ verdict = Unset
  /\ TrackerIdle /\ FormatIdle /\ DepsIdle /\ StageIdle

IgnoreNext ==
  \/ GitIgnoreFilter_init
  \/ GitIgnoreFilter_should_ignore
  \/ VisitFile

IgnoreSpec == IgnoreInit /\ [][IgnoreNext]_vars

(***************************************************************************)
(* Vocabulary of the properties of the filter.                             *)
(***************************************************************************)
\* a text cut at its separators
RECURSIVE SplitAtSlash(_)
SplitAtSlash(t) ==
  IF SLASH \notin Range(t) THEN <<t>>
  ELSE LET i == CHOOSE k \in 1..Len(t) :
                  t[k] = SLASH /\ \A j \in 1..(k - 1) : t[j] # SLASH
       IN <<SubSeq(t, 1, i - 1)>> \o SplitAtSlash(SubSeq(t, i + 1, Len(t)))

\* a line of the ignore file that is a rule, whether the rule is anchored to
\* the root, and the names the rule is made of
IsRule(line) == strip(line) # <<>> /\ Head(strip(line)) # HASH
IsAnchored(line) == Head(strip(line)) = SLASH
RuleNames(line) ==
  LET anchored == IsAnchored(line)
      named == rstrip(strip(line), {SLASH})
  IN SplitAtSlash(IF anchored THEN Tail(named) ELSE named)

\* the names of a rule match the entry that starts at part i of the path:
\* the entry itself or something beneath it
MatchesEntryAt(names, parts, i) ==
  /\ i + Len(names) - 1 <= Len(parts)
  /\ \A k \in 1..Len(names) : fnmatch(parts[i + k - 1], names[k])

\* what a rule excludes: an anchored rule the entry of the root, any other
\* rule the entries of that name at any depth
RuleExcludes(line, parts) ==
  /\ IsRule(line)
  /\ IF IsAnchored(line) THEN MatchesEntryAt(RuleNames(line), parts, 1)
     ELSE \E i \in 1..Len(parts) : MatchesEntryAt(RuleNames(line), parts, i)

\* an exclusion of the caller occurs somewhere in the absolute path
ExclusionOccurs(w) ==
  \E k \in 1..Len(w.exclude_dirs) : Contains(AbsoluteStr(w), w.exclude_dirs[k])

\* C18: GitIgnoreFilter.should_ignore returns true for a path exactly when
\* some rule of the root's ignore file excludes it, where a rule with a
\* leading separator matches the entry of that name in the root and what is
\* beneath it, a rule without one matches at any depth, and blank lines and
\* comment lines are no rules.
C18_RulesMatchAnchoredOrAnywhere ==
  matched # Unset
    => matched.value
         = (\E k \in 1..Len(walk.gitignore) :
              RuleExcludes(walk.gitignore[k], walk.path))

\* C19: the traversal skips a file for its layers exactly when the built-in
\* patterns, the ignore file or an exclusion of the caller found as a
\* substring of the absolute path matches, and a file no layer matches that
\* is small enough and no binary is processed.
C19_SkippedIffSomeLayerMatches ==
  verdict # Unset
    => LET some_layer == \/ should_ignore_file(walk, git_ignore_filter)
                         \/ ExclusionOccurs(walk)
       IN /\ (verdict.ignored \/ verdict.skip) = some_layer
          /\ ( /\ ~some_layer
               /\ walk.size <= MAX_FILE_SIZE
               /\ is_text_file(walk.path[Len(walk.path)]) )
               => verdict.processed

(***************************************************************************)
(***************************************************************************)
(* extract_dependencies: the names a Python file imports.                  *)
(***************************************************************************)
(***************************************************************************)
MaxExtractions == 2

\* "config" and "config."
CONFIG == <<99, 111, 110, 102, 105, 103>>
CONFIG_PREFIX == CONFIG \o <<DOT>>

\* the import nodes ast.walk meets, with the fields the function reads:
\* module is empty where ast gives None, level counts the leading dots
ImportNode(type, module_name, level, names) ==
  [type |-> type, module |-> module_name, level |-> level, names |-> names]

\* the statements of the files, in this order:
\*   import os; import os.path; import ab, aa; import config.settings;
\*   from os import path; from os.path import join;
\*   from config import settings; from config import b, a;
\*   from . import x; from .utils import helper
ImportNodes ==
  {ImportNode("Import", <<>>, 0, <<<<111, 115>>>>),
   ImportNode("Import", <<>>, 0, <<<<111, 115, 46, 112, 97, 116, 104>>>>),
   ImportNode("Import", <<>>, 0, <<<<97, 98>>, <<97, 97>>>>),
   ImportNode("Import", <<>>, 0, <<<<99, 111, 110, 102, 105, 103, 46, 115, 101, 116, 116, 105, 110, 103, 115>>>>),
   ImportNode("ImportFrom", <<111, 115>>, 0, <<<<112, 97, 116, 104>>>>),
   ImportNode("ImportFrom", <<111, 115, 46, 112, 97, 116, 104>>, 0, <<<<106, 111, 105, 110>>>>),
   ImportNode("ImportFrom", <<99, 111, 110, 102, 105, 103>>, 0, <<<<115, 101, 116, 116, 105, 110, 103, 115>>>>),
   ImportNode("ImportFrom", <<99, 111, 110, 102, 105, 103>>, 0, <<<<98>>, <<97>>>>),
   ImportNode("ImportFrom", <<>>, 1, <<<<120>>>>),
   ImportNode("ImportFrom", <<117, 116, 105, 108, 115>>, 1, <<<<104, 101, 108, 112, 101, 114>>>>)}

\* a file: whether it can be read and parsed, and its import nodes
Modules ==
  [parses : BOOLEAN,
   body : {<<>>} \union {<<a>> : a \in ImportNodes}
                 \union {<<a, b>> : a \in ImportNodes, b \in ImportNodes}]

\* name.split('.')[0]
top_level(name) ==
  IF DOT \notin Range(name) THEN name
  ELSE LET i == CHOOSE k \in 1..Len(name) :
                  name[k] = DOT /\ \A j \in 1..(k - 1) : name[j] # DOT
       IN SubSeq(name, 1, i - 1)

\* the order of Python strings: code point by code point, a proper prefix
\* first
RECURSIVE StrLess(_, _)
StrLess(a, b) ==
  IF b = <<>> THEN FALSE
  ELSE IF a = <<>> THEN TRUE
       ELSE IF Head(a) # Head(b) THEN Head(a) < Head(b)
            ELSE StrLess(Tail(a), Tail(b))

\* sorted(list(dependencies))
RECURSIVE sorted_list(_)
sorted_list(S) ==
  IF S = {} THEN <<>>
  ELSE LET least == CHOOSE x \in S : \A y \in S \ {x} : StrLess(x, y)
       IN <<least>> \o sorted_list(S \ {least})

\* what one node adds to the set (lines 722-745)
Added(node) ==
  IF node.type = "Import"
  THEN {IF StartsWith(node.names[k], CONFIG_PREFIX) THEN node.names[k]
        ELSE top_level(node.names[k]) : k \in 1..Len(node.names)}
  ELSE IF node.module # <<>>
       THEN IF node.module = CONFIG
            THEN {CONFIG_PREFIX \o node.names[k] : k \in 1..Len(node.names)}
            ELSE {top_level(node.module)}
       ELSE Range(node.names)

\* a file that cannot be read or parsed gives the empty list (line 748)
extract_dependencies(m) ==
  IF ~m.parses THEN <<>>
  ELSE sorted_list(UNION {Added(m.body[k]) : k \in 1..Len(m.body)})

\* a call of extract_dependencies on the file
ExtractDependencies ==
  /\ module # Unset
  /\ LET calls == IF dependencies = Unset THEN 0 ELSE dependencies.calls
     IN /\ calls < MaxExtractions
        /\ dependencies' = [value |-> extract_dependencies(module),
                            calls |-> calls + 1]
  /\ UNCHANGED <<module, trackerVars, formatVars, ignoreVars, stageVars>>

DepsInit ==
  /\ module \in Modules
  /\ dependencies = Unset
  /\ TrackerIdle /\ FormatIdle /\ IgnoreIdle /\ StageIdle

DepsNext == ExtractDependencies

DepsSpec == DepsInit /\ [][DepsNext]_vars

\* what an import statement is said to contribute: a direct import the top
\* level of each module it names, a relative import the imported names, an
\* import from config the qualified names, any other from-import the top
\* level of its module; a direct import of a module of config is read as
\* covered by the exception for config
Contributes(node) ==
  IF node.type = "Import"
  THEN {IF StartsWith(node.names[k], CONFIG_PREFIX) THEN node.names[k]
        ELSE top_level(node.names[k]) : k \in 1..Len(node.names)}
  ELSE IF node.level > 0 THEN Range(node.names)
       ELSE IF node.module = CONFIG
            THEN {CONFIG_PREFIX \o node.names[k] : k \in 1..Len(node.names)}
            ELSE {top_level(node.module)}

\* C20: a call of extract_dependencies on a file that parses returns the
\* names its import statements contribute (top-level module of a direct
\* import and of a from-import, config.Y for an import from config, the
\* imported name for a relative import), each once and in ascending order,
\* and a second call on the same file returns the same list.
C20_DependenciesOfEveryImport ==
  [][ (dependencies' # Unset /\ module.parses)
        => /\ dependencies'.value
                = sorted_list(UNION {Contributes(module.body[k]) :
                                       k \in 1..Len(module.body)})
           /\ \A i, j \in 1..Len(dependencies'.value) :
                i < j => StrLess(dependencies'.value[i], dependencies'.value[j])
           /\ dependencies # Unset
                => dependencies'.value = dependencies.value ]_vars

(***************************************************************************)
(***************************************************************************)
(* generate_file_purpose: the purpose line of a file.                      *)
(***************************************************************************)
(***************************************************************************)
UNDERSCORE == 95

\* ', '.join(names)
RECURSIVE JoinNames(_)
JoinNames(names) ==
  IF names = <<>> THEN <<>>
  ELSE IF Len(names) = 1 THEN names[1]
       ELSE names[1] \o <<44, SPACE>> \o JoinNames(Tail(names))

\* names[:3]
FirstThree(names) == SubSeq(names, 1, Min(3, Len(names)))

IsLetter(c) == c \in (LETTER_A..LETTER_Z) \union (UPPER_A..UPPER_Z)

\* str.title: the first letter of every run of letters in upper case, the
\* other letters in lower case
title(t) ==
  [k \in 1..Len(t) |->
     IF ~IsLetter(t[k]) THEN t[k]
     ELSE IF k = 1 \/ ~IsLetter(t[k - 1])
          THEN (IF t[k] >= LETTER_A THEN t[k] - (LETTER_A - UPPER_A) ELSE t[k])
          ELSE lower(<<t[k]>>)[1]]

\* Path.stem of a name with one suffix
stem(name) == SubSeq(name, 1, Len(name) - Len(suffix(name)))

\* name.replace('_', ' ')
SpacedName(name) ==
  [k \in 1..Len(name) |-> IF name[k] = UNDERSCORE THEN SPACE ELSE name[k]]

\* util, helper, format, convert, parse, validate, check, get, set
utility_indicators ==
  {<<117, 116, 105, 108>>, <<104, 101, 108, 112, 101, 114>>, <<102, 111, 114, 109, 97, 116>>, <<99, 111, 110, 118, 101, 114, 116>>, <<112, 97, 114, 115, 101>>, <<118, 97, 108, 105, 100, 97, 116, 101>>, <<99, 104, 101, 99, 107>>, <<103, 101, 116>>, <<115, 101, 116>>}

\* "test_", "_test.py", "__init__", "__main__"
PREFIX_TEST == <<116, 101, 115, 116, 95>>
SUFFIX_TEST == <<95, 116, 101, 115, 116, 46, 112, 121>>
STEM_INIT == <<95, 95, 105, 110, 105, 116, 95, 95>>
STEM_MAIN == <<95, 95, 109, 97, 105, 110, 95, 95>>

\* the value generate_file_purpose returns: which of its return statements
\* was taken, and the text that statement puts into the purpose
Purpose(kind, text) == [kind |-> kind, text |-> text]

\* a Python file as the function sees it: its name, the first line of the
\* stripped content, whether ast.parse accepts it, the docstring of the
\* module, whether it ends in an `if __name__ == "__main__":` guard, and the
\* names ast.walk yields
PyFile(name, first_line, parses, docstring, main_guard, classes, functions, imports) ==
  [file_name |-> name, first_line |-> first_line, parses |-> parses,
   docstring |-> docstring, main_guard |-> main_guard, classes |-> classes,
   functions |-> functions, imports |-> imports]

generate_file_purpose(f) ==
  IF StartsWith(f.first_line, <<HASH>>)
  THEN Purpose("comment", strip(lstrip(f.first_line, {HASH})))
  ELSE IF ~f.parses THEN Purpose("Purpose could not be determined", <<>>)
  ELSE IF f.docstring # <<>> THEN Purpose("docstring", strip(f.docstring))
  ELSE IF StartsWith(f.file_name, PREFIX_TEST) \/ EndsWith(f.file_name, SUFFIX_TEST)
  THEN Purpose("This file is for testing purposes", <<>>)
  ELSE
    LET IsPublic(name) == ~StartsWith(name, <<UNDERSCORE>>)
        functions == SelectSeq(f.functions, IsPublic)
        has_utility_funcs ==
          \E k \in 1..Len(functions) :
            \E ind \in utility_indicators : Contains(lower(functions[k]), ind)
    IN IF has_utility_funcs
       THEN IF Len(functions) = 1 THEN Purpose("Provides utility functions", <<>>)
            ELSE Purpose("Provides utility functions including",
                         JoinNames(FirstThree(functions)))
       ELSE IF f.classes # <<>>
       THEN IF Len(f.classes) = 1 THEN Purpose("Defines the class", f.classes[1])
            ELSE Purpose("Defines multiple classes:",
                         JoinNames(FirstThree(f.classes)))
       ELSE IF functions # <<>>
       THEN IF Len(functions) = 1
            THEN Purpose("Implements the function", functions[1])
            ELSE Purpose("Implements multiple functions including",
                         JoinNames(FirstThree(functions)))
       ELSE IF f.imports
       THEN Purpose("Module that re-exports functionality from other modules",
                    <<>>)
       ELSE IF stem(f.file_name) = STEM_INIT
       THEN Purpose("Package initialization module", <<>>)
       ELSE IF stem(f.file_name) = STEM_MAIN
       THEN Purpose("Main entry point module", <<>>)
       ELSE Purpose("Module for", title(SpacedName(stem(f.file_name))))

\* the files: names run.py, test_x.py, mytest.py, __main__.py; first lines
\* "# c", "##  c " and "x"; the docstring "Doc."; the class A; the functions
\* f, test_f, get_x, _f and the pair f, g
PyNames == {<<114, 117, 110, 46, 112, 121>>, <<116, 101, 115, 116, 95, 120, 46, 112, 121>>, <<109, 121, 116, 101, 115, 116, 46, 112, 121>>, <<95, 95, 109, 97, 105, 110, 95, 95, 46, 112, 121>>}
FirstLines == {<<35, 32, 99>>, <<35, 35, 32, 32, 99, 32>>, <<120>>}
Docstrings == {<<>>, <<68, 111, 99, 46>>}
ClassLists == {<<>>, <<<<65>>>>}
FunctionLists == {<<>>, <<<<102>>>>, <<<<116, 101, 115, 116, 95, 102>>>>, <<<<103, 101, 116, 95, 120>>>>, <<<<95, 102>>>>, <<<<102>>, <<103>>>>}

\* a file that does not parse has no tree to take anything from
PyFiles ==
  {PyFile(n, l, TRUE, d, g, c, fn, i) :
     n \in PyNames, l \in FirstLines, d \in Docstrings, g \in BOOLEAN,
     c \in ClassLists, fn \in FunctionLists, i \in BOOLEAN}
  \union {PyFile(n, l, FALSE, <<>>, FALSE, <<>>, <<>>, FALSE) :
            n \in PyNames, l \in FirstLines}

GenerateFilePurpose ==
  /\ generated_purpose = Unset
  /\ generated_purpose' = generate_file_purpose(py_file)
  /\ UNCHANGED <<py_file, trackerVars, formatVars, ignoreVars, depsVars,
                 lineVars, htmlVars, chunkVars, guiVars>>

PurposeInit ==
  /\ py_file \in PyFiles
  /\ generated_purpose = Unset
  /\ TrackerIdle /\ FormatIdle /\ IgnoreIdle /\ DepsIdle
  /\ LineIdle /\ HtmlIdle /\ ChunkIdle /\ GuiIdle

PurposeNext == GenerateFilePurpose

PurposeSpec == PurposeInit /\ [][PurposeNext]_vars

\* the source of a purpose, in the terms of the priority list; the label of
\* a file that only imports counts as a fallback label
SourceOf(p) ==
  CASE p.kind = "comment" -> "comment"
    [] p.kind = "docstring" -> "docstring"
    [] p.kind = "This file is for testing purposes" -> "test module"
    [] p.kind \in {"Provides utility functions",
                   "Provides utility functions including",
                   "Defines the class", "Defines multiple classes:",
                   "Implements the function",
                   "Implements multiple functions including"} -> "definitions"
    [] p.kind \in {"Module that re-exports functionality from other modules",
                   "Package initialization module", "Main entry point module",
                   "Module for"} -> "fallback"
    [] OTHER -> "other"

\* the source the priority list picks for a file
PrioritySource(f) ==
  IF StartsWith(f.first_line, <<HASH>>) THEN "comment"
  ELSE IF f.docstring # <<>> THEN "docstring"
  ELSE IF f.main_guard THEN "script"
  ELSE IF \/ Contains(f.file_name, <<116, 101, 115, 116>>)
          \/ \E k \in 1..Len(f.functions) : Contains(f.functions[k], <<116, 101, 115, 116>>)
  THEN "test module"
  ELSE IF f.classes # <<>> \/ f.functions # <<>> THEN "definitions"
  ELSE "fallback"

\* C21: the purpose of a file that parses comes from the first source of
\* the list that applies: the leading comment, the module docstring, the
\* __main__ guard (script), 'test' in the file name or in a callable name
\* (test module), the classes and functions it defines, the file name.
C21_PurposeByStrictPriority ==
  (generated_purpose # Unset /\ py_file.parses)
    => SourceOf(generated_purpose) = PrioritySource(py_file)

(***************************************************************************)
(***************************************************************************)
(* adjust_line_numbers: the lines the analysis reports for a class or a    *)
(* function.                                                               *)
(***************************************************************************)
(***************************************************************************)
MaxBlankLines == 2
MaxEntityLines == 3

IsBlank(line) == strip(line) = <<>>

\* adjust_line_numbers(content, start_line, end_line)
adjust_line_numbers(content, start_line, end_line) ==
  LET lines == splitlines(content)
      \* the blank lines at the top of lines[:start_line-1]
      leading_blanks ==
        CHOOSE n \in 0..Min(start_line - 1, Len(lines)) :
          /\ \A i \in 1..n : IsBlank(lines[i])
          /\ n = Min(start_line - 1, Len(lines)) \/ ~IsBlank(lines[n + 1])
      adjusted_start == start_line - leading_blanks
      adjusted_end == end_line - leading_blanks
      \* the last line before start_line that is not blank, 0 if none
      CodeBefore == {i \in 1..Min(start_line - 1, Len(lines)) : ~IsBlank(lines[i])}
      last_code_line ==
        IF CodeBefore = {} THEN 0
        ELSE CHOOSE i \in CodeBefore : \A j \in CodeBefore : j <= i
      blank_before ==
        Cardinality({i \in (last_code_line + 1)..(start_line - 1) :
                       i <= Len(lines) /\ IsBlank(lines[i])})
  IN IF adjusted_start > 1 /\ blank_before > 0
     THEN [start |-> last_code_line - leading_blanks + 2,
           end |-> last_code_line - leading_blanks + 3]
     ELSE [start |-> adjusted_start, end |-> adjusted_end]

\* a text made of blank lines at its top, lines of code, blank lines, the
\* lines of the class or function, and further lines of code; lineno and
\* end_lineno are what ast gives for the class or function
Entity(lead, before, gap, length, after) ==
  LET n == lead + before + gap + length + after
      blank == (1..lead) \union ((lead + before + 1)..(lead + before + gap))
  IN [content |-> join([i \in 1..n |-> IF i \in blank THEN <<>> ELSE LineText(i)])
                  \o <<LF>>,
      lineno |-> lead + before + gap + 1,
      end_lineno |-> lead + before + gap + length]

\* the class or function at the top, after one line, at the end of the
\* first chunk of lines and at the start of the second; in a short text and
\* in one that is chunked
Entities ==
  {Entity(lead, before, IF before = 0 THEN 0 ELSE gap, length, after) :
     lead \in 0..MaxBlankLines,
     before \in {0, 1, CHUNK_LINES - 1, CHUNK_LINES},
     gap \in 0..MaxBlankLines,
     length \in 1..MaxEntityLines,
     after \in {0, 1, CHUNK_THRESHOLD}}

\* process_node of file_analysis (lines 170 and 184)
AdjustLineNumbers ==
  /\ reported_lines = Unset
  /\ reported_lines' =
       adjust_line_numbers(entity.content, entity.lineno, entity.end_lineno)
  /\ UNCHANGED <<entity, trackerVars, formatVars, ignoreVars, depsVars,
                 purposeVars, htmlVars, chunkVars, guiVars>>

LineInit ==
  /\ entity \in Entities
  /\ reported_lines = Unset
  /\ TrackerIdle /\ FormatIdle /\ IgnoreIdle /\ DepsIdle
  /\ PurposeIdle /\ HtmlIdle /\ ChunkIdle /\ GuiIdle

LineNext == AdjustLineNumbers

LineSpec == LineInit /\ [][LineNext]_vars

\* the lines of the chunk that holds line n of a text: the recorded chunk,
\* or the whole text when it is not chunked
ChunkRangeOf(content, n) ==
  LET chunks == Chunks(content)
  IN IF chunks = <<>>
     THEN [first |-> 1, last |-> Len(splitlines(content))]
     ELSE LET k == CHOOSE k \in 1..Len(chunks) :
                     chunks[k].start_line <= n /\ n <= chunks[k].end_line
          IN [first |-> chunks[k].start_line, last |-> chunks[k].end_line]

\* C22: the start line reported for a class or function lies in the line
\* range of the chunk that holds its first line, and the reported lines
\* are at least 1 with start <= end.
C22_ReportedLinesMatchChunks ==
  reported_lines # Unset
    => /\ reported_lines.start >= 1
       /\ reported_lines.start <= reported_lines.end
       /\ LET range == ChunkRangeOf(entity.content, entity.lineno)
          IN range.first <= reported_lines.start
             /\ reported_lines.start <= range.last

(***************************************************************************)
(***************************************************************************)
(* HTMLFormatter.format: the page, kept as the pieces it is joined from.   *)
(***************************************************************************)
(***************************************************************************)
\* & < > " '
AMPERSAND == 38
LESS_THAN == 60
GREATER_THAN == 62
DOUBLE_QUOTE == 34
APOSTROPHE == 39

\* str.replace of one character
replace(text, old, new) ==
  Flatten([k \in 1..Len(text) |-> IF text[k] = old THEN new ELSE <<text[k]>>])

\* HTMLFormatter._escape_html: five replacements, one after the other
_escape_html(text) ==
  replace(replace(replace(replace(replace(text,
    AMPERSAND, <<38, 97, 109, 112, 59>>),
    LESS_THAN, <<38, 108, 116, 59>>),
    GREATER_THAN, <<38, 103, 116, 59>>),
    DOUBLE_QUOTE, <<38, 113, 117, 111, 116, 59>>),
    APOSTROPHE, <<38, 35, 51, 57, 59>>)

\* format_size of a size below 1024: "{size:.1f} B"
format_size(size) == Decimal(size) \o <<46, 48, 32, 66>>

\* a piece of the page: text the formatter writes itself, or text it takes
\* from a field of a file (raw) and puts into the page (text)
Markup(text) == [origin |-> "markup", raw |-> <<>>, text |-> text]
Derived(field, raw, text) == [origin |-> field, raw |-> raw, text |-> text]

\* "file_{hash(str(relative_path))}": the hash is a number; which number is
\* of no interest here
file_id(m) == Derived("file_id", m.relative_path, <<102, 105, 108, 101, 95>> \o Decimal(Len(m.relative_path)))

\* the entry of a file in the table of contents
HtmlTocEntry(m) ==
  <<Markup(<<60, 108, 105, 62, 60, 97, 32, 104, 114, 101, 102, 61, 39, 35>>), file_id(m), Markup(<<39, 62>>),
    Derived("relative_path", m.relative_path, m.relative_path), Markup(<<60, 47, 97, 62, 60, 47, 108, 105, 62>>)>>

HtmlCode(m, code) ==
  <<Markup(<<60, 112, 114, 101, 62, 60, 99, 111, 100, 101, 32, 99, 108, 97, 115, 115, 61, 34>>), Derived("language_id", m.language_id, m.language_id), Markup(<<34, 62>>),
    Derived("content", code, _escape_html(code)), Markup(<<60, 47, 99, 111, 100, 101, 62, 60, 47, 112, 114, 101, 62>>)>>

\* header, dependencies, content and analysis of one file
HtmlFile(m, extra_spacing) ==
  <<Markup(<<60, 100, 105, 118, 32, 99, 108, 97, 115, 115, 61, 39, 102, 105, 108, 101, 45, 104, 101, 97, 100, 101, 114, 39, 32, 105, 100, 61, 39>>), file_id(m), Markup(<<39, 62>>),
    Markup(<<60, 104, 50, 62>>), Derived("relative_path", m.relative_path, m.relative_path), Markup(<<60, 47, 104, 50, 62>>),
    Markup(<<60, 104, 51, 62, 70, 105, 108, 101, 32, 80, 117, 114, 112, 111, 115, 101, 60, 47, 104, 51, 62>>),
    Markup(<<60, 112, 62>>), Derived("purpose", m.purpose, m.purpose), Markup(<<60, 47, 112, 62>>),
    Markup(<<60, 112, 62, 60, 115, 116, 114, 111, 110, 103, 62, 83, 105, 122, 101, 58, 60, 47, 115, 116, 114, 111, 110, 103, 62, 32>>), Derived("size", <<>>, format_size(m.size)), Markup(<<60, 47, 112, 62>>),
    Markup(<<60, 112, 62, 60, 115, 116, 114, 111, 110, 103, 62, 76, 97, 115, 116, 32, 77, 111, 100, 105, 102, 105, 101, 100, 58, 60, 47, 115, 116, 114, 111, 110, 103, 62, 32>>), Derived("last_modified", <<>>, m.last_modified), Markup(<<60, 47, 112, 62>>)>>
  \o (IF m.dependencies # <<>>
      THEN <<Markup(<<60, 112, 62, 60, 115, 116, 114, 111, 110, 103, 62, 68, 101, 112, 101, 110, 100, 101, 110, 99, 105, 101, 115, 58, 60, 47, 115, 116, 114, 111, 110, 103, 62, 60, 47, 112, 62>>), Markup(<<60, 117, 108, 62>>)>>
           \o Flatten([k \in 1..Len(m.dependencies) |->
                         <<Markup(<<60, 108, 105, 62>>), Derived("dependency", m.dependencies[k],
                                       m.dependencies[k]), Markup(<<60, 47, 108, 105, 62>>)>>])
           \o <<Markup(<<60, 47, 117, 108, 62>>)>>
      ELSE <<>>)
  \o <<Markup(<<60, 47, 100, 105, 118, 62>>), Markup(<<60, 100, 105, 118, 32, 99, 108, 97, 115, 115, 61, 39, 102, 105, 108, 101, 45, 99, 111, 110, 116, 101, 110, 116, 39, 62>>)>>
  \o (IF m.chunks # <<>>
      THEN Flatten([k \in 1..Len(m.chunks) |->
                      (IF Len(m.chunks) > 1
                       THEN <<Markup(<<60, 104, 52, 62, 67, 104, 117, 110, 107, 32>>), Markup(Decimal(k)), Markup(<<60, 47, 104, 52, 62>>)>>
                       ELSE <<>>)
                      \o HtmlCode(m, m.chunks[k].content)
                      \o (IF extra_spacing THEN <<Markup(<<60, 98, 114, 62>>)>> ELSE <<>>)])
      ELSE HtmlCode(m, m.content))
  \o <<Markup(<<60, 100, 105, 118, 32, 99, 108, 97, 115, 115, 61, 39, 102, 105, 108, 101, 45, 109, 101, 116, 97, 100, 97, 116, 97, 39, 62>>)>>
  \o (IF m.file_analysis # <<>>
      THEN <<Derived("file_analysis", m.file_analysis, m.file_analysis)>>
      ELSE <<>>)
  \o <<Markup(<<60, 47, 100, 105, 118, 62>>), Markup(<<60, 47, 100, 105, 118, 62>>)>>
  \o (IF extra_spacing THEN <<Markup(<<60, 104, 114, 62>>)>> ELSE <<>>)

\* the page; of the head only the first and the last line are kept
HtmlPage(files_metadata, extra_spacing) ==
  <<Markup(<<60, 33, 68, 79, 67, 84, 89, 80, 69, 32, 104, 116, 109, 108, 62>>), Markup(<<60, 98, 111, 100, 121, 62>>)>>
  \o (IF Len(files_metadata) > 1
      THEN <<Markup(<<60, 104, 49, 62, 84, 97, 98, 108, 101, 32, 111, 102, 32, 67, 111, 110, 116, 101, 110, 116, 115, 60, 47, 104, 49, 62>>), Markup(<<60, 117, 108, 62>>)>>
           \o Flatten([k \in 1..Len(files_metadata) |->
                         HtmlTocEntry(files_metadata[k])])
           \o <<Markup(<<60, 47, 117, 108, 62>>), Markup(<<60, 104, 114, 62>>)>>
      ELSE <<>>)
  \o Flatten([k \in 1..Len(files_metadata) |->
                HtmlFile(files_metadata[k], extra_spacing)])
  \o <<Markup(<<60, 47, 98, 111, 100, 121, 62, 60, 47, 104, 116, 109, 108, 62>>)>>

\* the objects handed to the formatter: paths a.py and a&b.py; purposes
\* "p" and "a<b"; no dependency or os; contents x, a<b&c and '">; the
\* analysis without and with a nested function
HtmlPaths == {<<97, 46, 112, 121>>, <<97, 38, 98, 46, 112, 121>>}
HtmlPurposes == {<<112>>, <<97, 60, 98>>}
HtmlDependencies == {<<>>, <<<<111, 115>>>>}
HtmlContents == {<<120>>, <<97, 60, 98, 38, 99>>, <<39, 34, 62>>}
HtmlAnalyses ==
  {<<35, 35, 35, 32, 81, 117, 105, 99, 107, 32, 65, 110, 97, 108, 121, 115, 105, 115>>,
   <<35, 35, 35, 32, 81, 117, 105, 99, 107, 32, 65, 110, 97, 108, 121, 115, 105, 115, 10, 45, 32, 42, 42, 78, 101, 115, 116, 101, 100, 32, 70, 117, 110, 99, 116, 105, 111, 110, 115, 58, 42, 42, 32, 103, 32, 45, 62, 32, 109, 32, 40, 76, 105, 110, 101, 115, 32, 49, 45, 50, 41>>}

HtmlFileMetadata(path, purpose_text, dependency_names, content, analysis) ==
  [relative_path |-> path, purpose |-> purpose_text,
   dependencies |-> dependency_names, content |-> content,
   chunks |-> Chunks(content), language_id |-> get_language_from_path(path),
   size |-> Len(content), last_modified |-> <<50, 48, 50, 52, 45, 48, 49, 45, 48, 49, 84, 48, 48, 58, 48, 48, 58, 48, 48, 90>>,
   file_analysis |-> analysis]

HtmlObjects ==
  {HtmlFileMetadata(pa, pu, de, co, an) :
     pa \in HtmlPaths, pu \in HtmlPurposes, de \in HtmlDependencies,
     co \in HtmlContents, an \in HtmlAnalyses}

\* a list of one file, or of one file and b.py
HtmlLists ==
  {<<m>> : m \in HtmlObjects}
  \union {<<m, HtmlFileMetadata(<<98, 46, 112, 121>>, <<112>>, <<>>, <<120>>, <<35, 35, 35, 32, 81, 117, 105, 99, 107, 32, 65, 110, 97, 108, 121, 115, 105, 115>>)>> : m \in HtmlObjects}

HTMLFormatter_format(extra_spacing) ==
  /\ html = Unset
  /\ html' = HtmlPage(html_files, extra_spacing)
  /\ UNCHANGED <<html_files, trackerVars, formatVars, ignoreVars, depsVars,
                 purposeVars, lineVars, chunkVars, guiVars>>

HtmlInit ==
  /\ html_files \in HtmlLists
  /\ html = Unset
  /\ TrackerIdle /\ FormatIdle /\ IgnoreIdle /\ DepsIdle
  /\ PurposeIdle /\ LineIdle /\ ChunkIdle /\ GuiIdle

HtmlNext == \E extra_spacing \in BOOLEAN : HTMLFormatter_format(extra_spacing)

HtmlSpec == HtmlInit /\ [][HtmlNext]_vars

\* a text with each of & < > " ' written as its entity
EntityOf(c) ==
  CASE c = AMPERSAND -> <<38, 97, 109, 112, 59>>
    [] c = LESS_THAN -> <<38, 108, 116, 59>>
    [] c = GREATER_THAN -> <<38, 103, 116, 59>>
    [] c = DOUBLE_QUOTE -> <<38, 113, 117, 111, 116, 59>>
    [] c = APOSTROPHE -> <<38, 35, 51, 57, 59>>
    [] OTHER -> <<c>>

EntityEncoded(text) == Flatten([k \in 1..Len(text) |-> EntityOf(text[k])])

\* the fields of a file whose text must not bring markup into the page
FileDerived ==
  {"relative_path", "purpose", "dependency", "content", "file_analysis"}

\* C23: in the page every piece of text taken from a file (body, path,
\* purpose, dependency names, analysis) stands with each of & < > " '
\* written as its entity.
C23_FileTextIsEntityEncoded ==
  html # Unset
    => \A k \in 1..Len(html) :
         html[k].origin \in FileDerived
           => html[k].text = EntityEncoded(html[k].raw)

(***************************************************************************)
(* Further properties of the documents of MarkdownFormatter.format.        *)
(***************************************************************************)
\* the lines of the code blocks a document holds for a file, in order
RenderedLines(document, m) ==
  LET sections == SectionsOf(document, m)
  IN Flatten([k \in 1..Len(sections) |-> splitlines(sections[k].code)])

\* the sections of a document that carry an anchor
SectionsAt(document, anchor) ==
  {k \in 1..Len(document.sections) : document.sections[k].anchor = anchor}

\* C24: in a document made with chunk size 0 no file is split: every file
\* has an empty chunks list and one section with one code block.
C24_ChunkSizeZeroDisablesChunking ==
  docs # Unset
    => \A k \in 1..Len(docs) :
         docs[k].chunk_size = 0
           => \A m \in Built :
                /\ m.chunks = <<>>
                /\ Len(SectionsOf(docs[k].document, m)) = 1

\* C25: every file handed to format, the empty file included, has at least
\* one section in the document with its purpose and its metadata, so as
\* many files have a section as the list holds.
C25_EveryFileHasASection ==
  docs # Unset
    => \A k \in 1..Len(docs) :
         /\ \A m \in Built :
              \E i \in 1..Len(docs[k].document.sections) :
                LET section == docs[k].document.sections[i]
                IN /\ section.relative_path = m.relative_path
                   /\ section.purpose = m.purpose
                   /\ section.language_id = m.language_id
         /\ Cardinality({docs[k].document.sections[i].relative_path :
                           i \in 1..Len(docs[k].document.sections)})
              = Len(files)

\* C26: the code blocks of a file, taken in order, hold the lines of the
\* file without change: indentation and blank lines at the start or the
\* end of a chunk included.
C26_RenderingKeepsTheLines ==
  docs # Unset
    => \A k \in 1..Len(docs) :
         \A m \in Built :
           RenderedLines(docs[k].document, m) = splitlines(m.content)

\* C29: every anchor a line of the table of contents links to is the anchor
\* of exactly one section heading of the document (lists with an empty
\* file, which gets no section at all, are left to C25).
C29_NoTocLinkDangles ==
  (docs # Unset /\ \A m \in Built : m.content # <<>>)
    => \A k \in 1..Len(docs) :
         \A i \in 1..Len(docs[k].document.toc) :
           Cardinality(SectionsAt(docs[k].document,
                                  docs[k].document.toc[i].anchor)) = 1

(***************************************************************************)
(* BaseFormatter._chunk_content on its own: a formatter with a chunk size  *)
(* is handed a content and splits it.                                      *)
(***************************************************************************)
MaxChunkLines == 3
MaxBudget == 5

\* the lines the contents are made of: a blank line and lines of one to
\* three characters
ChunkLineSet == {<<>>, <<97>>, <<97, 98>>, <<97, 98, 99>>}

ChunkLineLists ==
  UNION {[1..n -> ChunkLineSet] : n \in 0..MaxChunkLines}

\* contents with and without a final newline
ChunkContents ==
  {join(l) \o end : l \in ChunkLineLists, end \in {<<>>, <<LF>>}}

\* chunk sizes: negative, zero (both switch the splitting off) and positive
Budgets == (0 - 1)..MaxBudget

Splitters ==
  {[content |-> c, chunk_size |-> b] : c \in ChunkContents, b \in Budgets}

\* formatter._chunk_content(content)
BaseFormatter_chunk_content ==
  /\ splitter # Unset
  /\ pieces = Unset
  /\ pieces' = [chunks |-> _chunk_content(splitter.content, splitter.chunk_size)]
  /\ UNCHANGED <<fs, result, atRun, runs, edits, formatVars, ignoreVars,
                 depsVars, purposeVars, lineVars, htmlVars, splitter, guiVars>>

ChunkInit ==
  /\ fs = Unset /\ result = Unset /\ atRun = Unset /\ runs = Unset
  /\ edits = Unset
  /\ FormatIdle /\ IgnoreIdle /\ DepsIdle
  /\ PurposeIdle /\ LineIdle /\ HtmlIdle /\ GuiIdle
  /\ splitter \in Splitters
  /\ pieces = Unset

ChunkNext == BaseFormatter_chunk_content

ChunkSpec == ChunkInit /\ [][ChunkNext]_vars

\* the lines '\n'.join(current_chunk) put into a chunk: the pieces between
\* its line feeds
JoinedLines(chunk) ==
  LET feeds == LineFeeds(chunk, 1, Len(chunk))
  IN [k \in 1..(Len(feeds) + 1) |->
        SubSeq(chunk, IF k = 1 THEN 1 ELSE feeds[k - 1] + 1,
                      IF k > Len(feeds) THEN Len(chunk) ELSE feeds[k] - 1)]

\* the size of a chunk: the sum over its lines of length + 1
ChunkSize(chunk) ==
  LET sizes == Sizes(JoinedLines(chunk)) IN sizes[Len(sizes)]

\* C28: with a positive chunk size B the chunks hold, in order, exactly the
\* lines of the content; there are no more chunks than lines, so no chunk
\* is empty; a chunk larger than B holds a single line; and every chunk but
\* the last is maximal: with the first line of the next chunk it would
\* exceed B. With B <= 0 the result is the one chunk holding the content.
C28_ChunksOfWholeLinesWithinBudget ==
  pieces # Unset
    => LET B == splitter.chunk_size
           chunks == pieces.chunks
           lines == splitlines(splitter.content)
       IN IF B > 0
          THEN /\ Flatten([k \in 1..Len(chunks) |-> JoinedLines(chunks[k])])
                    = lines
               /\ Len(chunks) <= Len(lines)
               /\ \A k \in 1..Len(chunks) :
                    /\ Len(JoinedLines(chunks[k])) >= 1
                    /\ ChunkSize(chunks[k]) > B
                         => Len(JoinedLines(chunks[k])) = 1
                    /\ k < Len(chunks)
                         => ChunkSize(chunks[k])
                              + Len(JoinedLines(chunks[k + 1])[1]) + 1 > B
          ELSE chunks = <<splitter.content>>

\* a content was split into several chunks: one of a single line larger
\* than the chunk size, and one of several lines that fills it exactly
C28_Witness ==
  /\ pieces # Unset
  /\ splitter.chunk_size > 0
  /\ Len(pieces.chunks) >= 2
  /\ \E k \in 1..Len(pieces.chunks) :
       /\ ChunkSize(pieces.chunks[k]) > splitter.chunk_size
       /\ Len(JoinedLines(pieces.chunks[k])) = 1
  /\ \E k \in 1..Len(pieces.chunks) :
       /\ ChunkSize(pieces.chunks[k]) = splitter.chunk_size
       /\ Len(JoinedLines(pieces.chunks[k])) >= 2
       /\ k < Len(pieces.chunks)

(***************************************************************************)
(* The same tree under another root.                                       *)
(***************************************************************************)
\* the walk of the same file of the same tree, with the tree placed at root
PlacedAt(w, root) == [w EXCEPT !.root = root]

\* the filter constructed for the tree placed at root (line 1260)
FilterAt(filter, root) == [filter EXCEPT !.root_dir = root]

\* C30: the built-in patterns give a file the same answer wherever the root
\* is located, and when the caller excludes nothing the file is processed
\* under one root exactly when it is processed under every other, so the
\* processed relative paths of the two aggregations are the same.
C30_BuiltinIgnoreIsRootIndependent ==
  verdict # Unset
    => \A root \in Roots :
         /\ BuiltinIgnored(AbsoluteStr(walk))
              = BuiltinIgnored(AbsoluteStr(PlacedAt(walk, root)))
         /\ walk.exclude_dirs = <<>>
              => verdict.processed
                   = Visit(PlacedAt(walk, root),
                           FilterAt(git_ignore_filter, root)).processed

(***************************************************************************)
(* The window of python_aggregator_gui.py. Everything runs on the main     *)
(* thread: the handlers of the two buttons (start_aggregation then calls   *)
(* aggregate directly, line 205), the edits of the entries and             *)
(* process_queue. The queue holds the closures handed to                   *)
(* schedule_gui_update.                                                    *)
(***************************************************************************)
MaxClicks == 2
PLUS == 43

\* a status line: a fixed message and, for an f-string, the text put in it
Status(message, arg) == [message |-> message, arg |-> arg]

READY == Status("Ready", <<>>)
MUST_BE_POSITIVE == Status("Error: Invalid chunk size - must be positive", <<>>)
MUST_BE_A_NUMBER == Status("Error: Invalid chunk size - must be a number", <<>>)
SELECT_A_DIRECTORY == Status("Error: Please select a project directory", <<>>)
AGGREGATING == Status("Aggregating files...", <<>>)
PROCESSING_COMPLETE == Status("Processing complete", <<>>)
IN_PREVIEW ==
  Status("Output displayed in preview (no output file specified)", <<>>)

\* the value of a run of decimal digits
RECURSIVE DigitsValue(_)
DigitsValue(digits) ==
  IF digits = <<>> THEN 0
  ELSE 10 * DigitsValue(SubSeq(digits, 1, Len(digits) - 1))
       + (digits[Len(digits)] - DIGIT_0)

\* int(text): surrounding whitespace is dropped, then an optional sign and
\* at least one decimal digit; anything else raises ValueError (the texts
\* hold no underscore)
int(text) ==
  LET stripped == strip(text)
      signed == stripped # <<>> /\ Head(stripped) \in {HYPHEN, PLUS}
      digits == IF signed THEN Tail(stripped) ELSE stripped
      ok == digits # <<>> /\ \A i \in 1..Len(digits) : digits[i] \in DIGIT_0..DIGIT_9
      magnitude == IF ok THEN DigitsValue(digits) ELSE 0
  IN [ok |-> ok,
      value |-> IF signed /\ Head(stripped) = HYPHEN THEN 0 - magnitude
                ELSE magnitude]

\* a closure on the queue: the function, and what it captured
Closure(func, message, preview, output) ==
  [func |-> func, message |-> message, preview |-> preview, output |-> output]

\* update_status(message): _update is put on the queue
update_status(message) == Closure("_update", message, FALSE, <<>>)

\* validate_inputs: the result, and the closure update_status enqueued
validate_inputs(chunk_size_text, directory) ==
  LET chunk_size == int(chunk_size_text)
  IN IF ~chunk_size.ok
     THEN [value |-> FALSE, enqueued |-> <<update_status(MUST_BE_A_NUMBER)>>]
     ELSE IF chunk_size.value <= 0
          THEN [value |-> FALSE, enqueued |-> <<update_status(MUST_BE_POSITIVE)>>]
          ELSE IF directory = <<>>
               THEN [value |-> FALSE,
                     enqueued |-> <<update_status(SELECT_A_DIRECTORY)>>]
               ELSE [value |-> TRUE, enqueued |-> <<>>]

\* aggregate(preview) with the outcome of aggregator_func: what it enqueues
aggregate(preview, outcome) ==
  <<update_status(AGGREGATING)>>
  \o (IF outcome.raises
      THEN <<Closure("_show_error", Status("Error: ", outcome.text), preview,
                     <<>>)>>
      ELSE <<update_status(PROCESSING_COMPLETE),
             Closure("_update_output", READY, preview, outcome.text)>>)

\* the window as process_queue sees it
Window(status, enqueued, preview, written, output_file_text) ==
  [status_var |-> status, queue |-> enqueued, preview_text |-> preview,
   output_file |-> written, output_file_var |-> output_file_text]

\* func(): one closure taken from the queue is run
Call(func, g) ==
  IF func.func = "_update" THEN [g EXCEPT !.status_var = func.message]
  ELSE IF func.func = "_clear_preview"
  THEN [g EXCEPT !.preview_text = [text |-> <<>>]]
  ELSE IF func.func = "_show_error"
  THEN [g EXCEPT !.queue = Append(@, update_status(func.message))]
  ELSE IF func.preview
  THEN [g EXCEPT !.preview_text = [text |-> func.output]]
  ELSE IF g.output_file_var # <<>>
  THEN [g EXCEPT !.output_file =
                   Append(@, [path |-> g.output_file_var, text |-> func.output]),
                 !.queue =
                   Append(@, update_status(Status("Output written to ",
                                                  g.output_file_var)))]
  ELSE [g EXCEPT !.preview_text = [text |-> func.output],
                 !.queue = Append(@, update_status(IN_PREVIEW))]

\* the loop of process_queue: closures are taken until the queue is empty,
\* those enqueued meanwhile included
RECURSIVE Drain(_)
Drain(g) ==
  IF g.queue = <<>> THEN g
  ELSE Drain(Call(Head(g.queue), [g EXCEPT !.queue = Tail(@)]))

(***************************************************************************)
(* The inputs of the window.                                               *)
(***************************************************************************)
\* no directory and '/p'
Directories == {<<>>, <<47, 112>>}

\* '2000' (the default), '100', ' 7 ', '0', '-100', 'invalid' and the empty
\* entry
ChunkSizeTexts ==
  {<<50, 48, 48, 48>>, <<49, 48, 48>>, <<32, 55, 32>>, <<48>>,
   <<45, 49, 48, 48>>, <<105, 110, 118, 97, 108, 105, 100>>, <<>>}

\* no output file and '/o'
OutputFiles == {<<>>, <<47, 111>>}

\* aggregator_func returns the document 'out' or raises with 'boom'
Outcomes ==
  {[raises |-> FALSE, text |-> <<111, 117, 116>>],
   [raises |-> TRUE, text |-> <<98, 111, 111, 109>>]}

(***************************************************************************)
(* The operations of the window.                                           *)
(***************************************************************************)
otherVars ==
  <<fs, result, atRun, runs, edits, formatVars, ignoreVars, depsVars,
    purposeVars, lineVars, htmlVars, chunkVars>>

\* the entry of the directory, or browse_directory
EditDirectory ==
  /\ \E directory \in Directories :
       /\ directory # directory_var
       /\ directory_var' = directory
  /\ UNCHANGED <<chunk_size_var, output_file_var, status_var, queue,
                 preview_text, output_file, invocations, clicks, validated,
                 otherVars>>

\* the entry of the chunk size
EditChunkSize ==
  /\ \E text \in ChunkSizeTexts :
       /\ text # chunk_size_var
       /\ chunk_size_var' = text
  /\ UNCHANGED <<directory_var, output_file_var, status_var, queue,
                 preview_text, output_file, invocations, clicks, validated,
                 otherVars>>

\* the entry of the output file, or browse_output_file
EditOutputFile ==
  /\ \E file_path \in OutputFiles :
       /\ file_path # output_file_var
       /\ output_file_var' = file_path
  /\ UNCHANGED <<directory_var, chunk_size_var, status_var, queue,
                 preview_text, output_file, invocations, clicks, validated,
                 otherVars>>

\* start_aggregation(preview), with aggregate run on the main thread
start_aggregation(preview) ==
  /\ clicks < MaxClicks
  /\ clicks' = clicks + 1
  /\ LET valid == validate_inputs(chunk_size_var, directory_var)
     IN /\ validated' = [value |-> valid.value,
                         chunk_size |-> chunk_size_var,
                         directory |-> directory_var]
        /\ IF ~valid.value
           THEN /\ queue' = queue \o valid.enqueued
                /\ UNCHANGED invocations
           ELSE \E outcome \in Outcomes :
                  /\ invocations' =
                       Append(invocations,
                              [root_dir |-> directory_var,
                               chunk_size |-> int(chunk_size_var).value])
                  /\ queue' =
                       queue
                       \o (IF preview
                           THEN <<Closure("_clear_preview", READY, preview, <<>>)>>
                           ELSE <<>>)
                       \o aggregate(preview, outcome)
  /\ UNCHANGED <<directory_var, chunk_size_var, output_file_var, status_var,
                 preview_text, output_file, otherVars>>

\* the Preview button
preview_aggregation == start_aggregation(TRUE)

\* process_queue, when something is pending
process_queue ==
  /\ queue # <<>>
  /\ LET g == Drain(Window(status_var, queue, preview_text, output_file,
                           output_file_var))
     IN /\ status_var' = g.status_var
        /\ queue' = g.queue
        /\ preview_text' = g.preview_text
        /\ output_file' = g.output_file
  /\ UNCHANGED <<directory_var, chunk_size_var, output_file_var, invocations,
                 clicks, validated, otherVars>>

\* AggregatorGUI.__init__ (lines 21-31), before the first click
GuiInit ==
  /\ TrackerIdle /\ FormatIdle /\ IgnoreIdle /\ DepsIdle
  /\ PurposeIdle /\ LineIdle /\ HtmlIdle /\ ChunkIdle
  /\ directory_var = <<>>
  /\ chunk_size_var = <<50, 48, 48, 48>>
  /\ output_file_var = <<>>
  /\ status_var = READY
  /\ queue = <<>>
  /\ preview_text = [text |-> <<>>]
  /\ output_file = <<>>
  /\ invocations = <<>>
  /\ clicks = 0
  /\ validated = [value |-> TRUE, chunk_size |-> <<>>, directory |-> <<>>]

GuiNext ==
  \/ EditDirectory
  \/ EditChunkSize
  \/ EditOutputFile
  \/ preview_aggregation
  \/ start_aggregation(FALSE)
  \/ process_queue

GuiSpec == GuiInit /\ [][GuiNext]_vars

(***************************************************************************)
(* Vocabulary of the properties of the window.                             *)
(***************************************************************************)
\* the step is a click on one of the two buttons
IsClick == clicks' = clicks + 1

\* validation passes: the chunk size is an integer greater than 0 and a
\* directory is set
ValidationPasses(chunk_size_text, directory) ==
  /\ int(chunk_size_text).ok
  /\ int(chunk_size_text).value > 0
  /\ directory # <<>>

\* the error messages that correspond to what is wrong with the inputs
CorrespondingErrors(chunk_size_text, directory) ==
  {error \in {MUST_BE_A_NUMBER, MUST_BE_POSITIVE, SELECT_A_DIRECTORY} :
     \/ error = MUST_BE_A_NUMBER /\ ~int(chunk_size_text).ok
     \/ /\ error = MUST_BE_POSITIVE
        /\ int(chunk_size_text).ok
        /\ int(chunk_size_text).value <= 0
     \/ error = SELECT_A_DIRECTORY /\ directory = <<>>}

\* C27: a click invokes the aggregator exactly when validation passes; a
\* click that fails validation invokes nothing, writes no preview and no
\* file, and enqueues one status update; and when the last click failed
\* validation and the queue has been drained, the status shows an error
\* message that corresponds to the inputs of that click.
C27_OnlyValidInputsReachTheAggregator ==
  [][ /\ IsClick
        => /\ (Len(invocations') = Len(invocations) + 1)
                = ValidationPasses(chunk_size_var, directory_var)
           /\ ~ValidationPasses(chunk_size_var, directory_var)
                => /\ invocations' = invocations
                   /\ preview_text' = preview_text
                   /\ output_file' = output_file
                   /\ Len(queue') = Len(queue) + 1
      /\ (~validated'.value /\ queue' = <<>>)
           => status_var'
                \in CorrespondingErrors(validated'.chunk_size,
                                        validated'.directory)
    ]_vars

====
